---- MODULE Spec2Model ----
(***************************************************************************)
(* Joke Manager (V12): the campaign generation pipeline of the Flask app   *)
(* (src/app/app.py, generate_campaign) and of the Streamlit app            *)
(* (src/joke_manager_app.py, Generate tab), with the helpers they call.    *)
(*                                                                         *)
(* Texts are sequences of one-character strings.  An optional value (a     *)
(* Python value that may be None) is a set: {} is None, {x} is the value x.*)
(* Similarity scores are integers in units of 0.0001.                      *)
(***************************************************************************)
EXTENDS Integers, Sequences, FiniteSets, TLC

VARIABLES
    app,            \* which front end serves the request: "flask" or "streamlit"
    gemini_client,  \* TRUE when the module-level Gemini client was configured
    store,          \* the comic_segments table: id -> record
    pc,             \* position of the handler
    headline,       \* the headline the handler works with
    count,          \* requested number of jokes
    themes,         \* result of expand_headline_to_themes
    theme_failed,   \* TRUE when the theme-expansion call raised
    query_embedding,\* optional vector: result of get_embedding(themes)
    matches,        \* candidate rows the loop iterates over
    idx,            \* index of the next candidate of the loop
    results,        \* the results list built by the loop
    outcome,        \* per candidate, how generate_v12_joke ended: "ok", "fail", "raise"
    calls,          \* log of the external calls and helper invocations, in order
    response,       \* optional: the HTTP response of the Flask handler
    ui,             \* what the Streamlit script displayed: status, errors, jokes
    call_in,        \* a helper called on its own: the function and its inputs
    call_out,       \* optional: what that call returned
    next_id,        \* the id the table gives to the next inserted row
    job,            \* optional: the bridge writer that has read and not yet written
    last,           \* optional: the last completed operation on the table
    session_state   \* per browser session, st.session_state: the delete
                    \* confirmations and the review list

vars == << app, gemini_client, store, pc, headline, count, themes, theme_failed,
           query_embedding, matches, idx, results, outcome, calls, response, ui,
           call_in, call_out, next_id, job, last, session_state >>

\* what a campaign request leaves alone
campaignFrame == << call_in, call_out, next_id, job, last, session_state >>

\* the state of a campaign request
campaignVars == << pc, headline, count, themes, theme_failed, query_embedding,
                   matches, idx, results, outcome, response, ui >>

\* what the helpers and the operations on the table leave alone
idleVars == << campaignVars, session_state >>

----------------------------------------------------------------------------
(* Bounds of the model *)

MaxCount == 3

\* longest text given to a helper called on its own
MaxTextLen == 3

\* number of operations on the table in one run
MaxOps == 2

(* Program constants *)

PreviewCap == 150
FallbackThreshold == 1000

----------------------------------------------------------------------------
(* Optional values *)

NULL == {}

Some(x) == {x}

Val(o) == CHOOSE x \in o : TRUE

Min(a, b) == IF a <= b THEN a ELSE b

\* the browser sessions of the Streamlit front end
Sessions == {"s1", "s2"}

\* st.session_state of sessions that have clicked nothing and extracted
\* nothing: no "confirm_<id>" key, and the review list is empty
NoSession == [s \in Sessions |-> [confirm |-> {}, extracted_jokes |-> << >>]]

(* Texts *)

Chars == {"a", " ", "\n"}

Whitespace == {" ", "\n"}

\* the texts a request or a text-generation reply carries: empty, blank,
\* plain, and one with surrounding whitespace and an inner newline
RawTexts == { << >>, <<"\n">>, <<"a">>, <<" ", "a", "\n", "a", " ">> }

\* str.strip(chars): drop the leading and trailing characters that are in
\* cs (the text is bound once, so that it is evaluated once)
StripChars(s, cs) ==
    LET strip(t) ==
            LET keep == {i \in 1..Len(t) : t[i] \notin cs}
            IN  IF keep = {} THEN << >>
                ELSE LET lo == CHOOSE i \in keep : \A j \in keep : i <= j
                         hi == CHOOSE i \in keep : \A j \in keep : j <= i
                     IN  SubSeq(t, lo, hi)
    IN  Val({strip(t) : t \in {s}})

\* str.strip(): drop leading and trailing whitespace
Strip(s) == StripChars(s, Whitespace)

\* str.replace("\n", " ")
ReplaceNewlines(s) == [i \in 1..Len(s) |-> IF s[i] = "\n" THEN " " ELSE s[i]]

\* the text get_embedding sends to the embedding service
NormalizeForEmbedding(s) == Strip(ReplaceNewlines(s))

\* the vector the embedding service returns for a text (deterministic backend)
Embedding(text) == [vec |-> text]

----------------------------------------------------------------------------
(* The store *)

RecordIds == {1, 2, 3}

LongText == [i \in 1..(PreviewCap + 1) |-> "a"]

\* a table content the program can hold: an enriched joke, a long joke whose
\* bridge has no embedding, and a joke that was never enriched
InitialStore ==
    [id \in RecordIds |->
        IF id = 1 THEN
            [video_id |-> "manual", original_text |-> << >>,
             searchable_text |-> <<"a">>, meta_tags |-> << >>,
             embedding |-> Some(Embedding(<<"a">>)),
             bridge_content |-> Some(<<"a", "a">>),
             bridge_embedding |-> Some(Embedding(<<"a", "a">>))]
        ELSE IF id = 2 THEN
            [video_id |-> "vid", original_text |-> <<"a">>,
             searchable_text |-> LongText, meta_tags |-> << >>,
             embedding |-> Some(Embedding(LongText)),
             bridge_content |-> Some(<<"a">>),
             bridge_embedding |-> NULL]
        ELSE
            [video_id |-> "manual", original_text |-> << >>,
             searchable_text |-> <<"a", " ", "a">>, meta_tags |-> << >>,
             embedding |-> Some(Embedding(<<"a", " ", "a">>)),
             bridge_content |-> NULL,
             bridge_embedding |-> NULL]]

(* Similarity search: the rows the stored procedures return *)

\* scores in units of 0.0001, none of them a rounding tie
SimValues == {996, 1004, 1014}

Row(st, id, sim) ==
    [id |-> id, searchable_text |-> st[id].searchable_text,
     bridge_content |-> st[id].bridge_content, similarity |-> sim]

Injective(f) == \A i, j \in DOMAIN f : i # j => f[i] # f[j]

Descending(f) == \A i, j \in DOMAIN f : i < j => f[i] >= f[j]

\* every result of a search procedure over table st: at most match_count
\* rows of distinct records, each with a score out of sims, ordered by
\* descending score
SearchResults(st, match_count, sims) ==
    UNION {
        {[i \in 1..m |-> Row(st, ids[i], sc[i])] :
            ids \in {f \in [1..m -> DOMAIN st] : Injective(f)},
            sc \in {f \in [1..m -> sims] : Descending(f)}}
        : m \in 0..Min(match_count, Cardinality(DOMAIN st))}

\* match_joke_bridges(query_embedding, match_count): no threshold
BridgeSearchResults(st, match_count) == SearchResults(st, match_count, SimValues)

\* match_jokes(query_embedding, match_threshold, match_count)
ContentSearchResults(st, match_threshold, match_count) ==
    SearchResults(st, match_count, {s \in SimValues : s > match_threshold})

\* round(similarity, 3), in units of 0.001
Round3(sim) == (sim + 5) \div 10

\* reference_joke[:150] + '...' if len(reference_joke) > 150 else reference_joke
Preview(text) ==
    IF Len(text) > PreviewCap
    THEN SubSeq(text, 1, PreviewCap) \o <<".", ".", ".">>
    ELSE text

----------------------------------------------------------------------------
(* The transplant call: the model's response text and its parsing *)

RequiredFields ==
    {"engine_selected", "reasoning", "brainstorming", "selected_strategy", "draft_joke"}

\* A response text is a sequence of tokens: braces, brackets, the members of
\* an object (the set of their keys), a string item "draft_joke", other text.
Tok(t) == [t |-> t, f |-> {}]

Members(F) == [t |-> "members", f |-> F]

LB == Tok("{")

RB == Tok("}")

LBK == Tok("[")

RBK == Tok("]")

Str == Tok("draft_joke")

Junk == Tok("junk")

Object(F) == IF F = {} THEN <<LB, RB>> ELSE <<LB, Members(F), RB>>

\* the key sets of the objects the model returns: complete, one field
\* short (the draft, or another field), empty
FieldSets ==
    {RequiredFields, RequiredFields \ {"draft_joke"},
     RequiredFields \ {"engine_selected"}, {}}

\* an object alone, other JSON values, text that is no JSON, and an object
\* wrapped in other text
ResponseTexts ==
    {Object(F) : F \in FieldSets}
        \cup { <<LBK, RBK>>, <<LBK, Str, RBK>>, <<Junk>>, << >>,
               <<LB, Members(RequiredFields)>>,
               Object(RequiredFields) \o <<Junk>> \o Object(RequiredFields) }
        \cup {pre \o Object(F) \o post :
                pre \in { << >>, <<Junk>> },
                post \in { << >>, <<Junk>>, <<RB>> },
                F \in {RequiredFields, RequiredFields \ {"draft_joke"}}}

\* what the generative backend does on one call
Backends ==
    {[kind |-> k, text |-> << >>] : k \in {"import_error", "raise", "no_text"}}
        \cup {[kind |-> "text", text |-> t] : t \in ResponseTexts}

\* A Python value as far as the handlers look at it: a dict or a list, its
\* keys (items of a list), and whether its "success" entry is true.
PyValue(kind, keys, success) == [kind |-> kind, keys |-> keys, success |-> success]

FailDict == PyValue("dict", {"success", "error"}, FALSE)

\* json.loads(text): the parsed value, or NULL for a JSONDecodeError
ParseJson(text) ==
    IF text = <<LB, RB>> THEN Some(PyValue("dict", {}, FALSE))
    ELSE IF Len(text) = 3 /\ text[1] = LB /\ text[2].t = "members" /\ text[3] = RB
        THEN Some(PyValue("dict", text[2].f, FALSE))
    ELSE IF text = <<LBK, RBK>> THEN Some(PyValue("list", {}, FALSE))
    ELSE IF text = <<LBK, Str, RBK>> THEN Some(PyValue("list", {"draft_joke"}, FALSE))
    ELSE NULL

\* re.search(r'\{[\s\S]*\}', text): from the first "{" to the last "}" after it
ExtractBlock(text) ==
    LET opens == {i \in 1..Len(text) : text[i] = LB}
    IN  IF opens = {} THEN NULL
        ELSE LET p == CHOOSE i \in opens : \A j \in opens : i <= j
                 closes == {i \in (p + 1)..Len(text) : text[i] = RB}
             IN  IF closes = {} THEN NULL
                 ELSE LET q == CHOOSE i \in closes : \A j \in closes : j <= i
                      IN  Some(SubSeq(text, p, q))

\* result of one invocation: raised, or a returned value; called tells
\* whether the generative backend was invoked
Returned(v, called) == [raised |-> FALSE, value |-> v, called |-> called]

Raised(called) == [raised |-> TRUE, value |-> FailDict, called |-> called]

\* result["success"] = True; return result
MarkSuccess(v) ==
    IF v.kind = "dict"
    THEN Returned(PyValue("dict", v.keys \cup {"success"}, TRUE), TRUE)
    ELSE Returned(FailDict, TRUE)

\* variant: the configuration check is missing
generate_v12_joke_unchecked(client, backend) ==
    IF backend.kind = "import_error" THEN Raised(FALSE)
    ELSE IF backend.kind \in {"raise", "no_text"} THEN Returned(FailDict, TRUE)
    ELSE LET strict == ParseJson(backend.text)
         IN  IF strict # NULL THEN MarkSuccess(Val(strict))
             ELSE Returned(FailDict, TRUE)

\* src/app/app.py generate_v12_joke
generate_v12_joke(client, backend) ==
    IF ~client THEN Returned(FailDict, FALSE)
    ELSE IF backend.kind = "import_error" THEN Raised(FALSE)
    ELSE IF backend.kind \in {"raise", "no_text"} THEN Returned(FailDict, TRUE)
    ELSE LET strict == ParseJson(backend.text)
         IN  IF strict # NULL THEN MarkSuccess(Val(strict))
             ELSE LET json_match == ExtractBlock(backend.text)
                  IN  IF json_match = NULL THEN Returned(FailDict, TRUE)
                      ELSE LET inner == ParseJson(Val(json_match))
                           IN  IF inner = NULL THEN Returned(FailDict, TRUE)
                               ELSE MarkSuccess(Val(inner))

\* src/joke_manager_app.py generate_v12_joke
st_generate_v12_joke(client, backend) ==
    IF ~client THEN Returned(FailDict, FALSE)
    ELSE IF backend.kind = "import_error" THEN Raised(FALSE)
    ELSE IF backend.kind \in {"raise", "no_text"} THEN Returned(FailDict, TRUE)
    ELSE LET strict == ParseJson(backend.text)
         IN  IF strict # NULL THEN Returned(Val(strict), TRUE)
             ELSE Returned(FailDict, TRUE)

\* d.get(key, default) for the string-valued fields of the model output
Get(v, key, default) == IF key \in v.keys THEN "v" ELSE default

----------------------------------------------------------------------------
(* Helpers shared by the handlers *)

\* what the theme/bridge text-generation service does on one call
ExpandReplies ==
    {[ok |-> FALSE, content |-> << >>]}
        \cup {[ok |-> TRUE, content |-> t] : t \in RawTexts}

\* variant: a failed expansion yields no themes
expand_headline_to_themes_empty(h, reply) ==
    IF reply.ok THEN Strip(reply.content) ELSE << >>

\* expand_headline_to_themes (the same in both front ends)
expand_headline_to_themes(h, reply) ==
    IF reply.ok THEN Strip(reply.content) ELSE h

EmbeddingServices == {"ok", "raise"}

\* variant: the service is called even when nothing is left of the text
get_embedding_unchecked(text, service) ==
    LET t == NormalizeForEmbedding(text)
    IN  IF service = "raise"
        THEN [raised |-> TRUE, value |-> NULL, called |-> TRUE, sent |-> t]
        ELSE [raised |-> FALSE, value |-> Some(Embedding(t)), called |-> TRUE, sent |-> t]

\* src/app/app.py get_embedding: value is the optional vector, sent the text
\* passed to the service, called whether the service was invoked
get_embedding(text, service) ==
    LET t == NormalizeForEmbedding(text)
    IN  IF t = << >> THEN [raised |-> FALSE, value |-> NULL, called |-> FALSE, sent |-> t]
        ELSE IF service = "raise"
            THEN [raised |-> TRUE, value |-> NULL, called |-> TRUE, sent |-> t]
        ELSE [raised |-> FALSE, value |-> Some(Embedding(t)), called |-> TRUE, sent |-> t]

\* src/joke_manager_app.py get_embedding: a service failure is caught
st_get_embedding(text, service) ==
    LET t == NormalizeForEmbedding(text)
    IN  IF t = << >> THEN [raised |-> FALSE, value |-> NULL, called |-> FALSE, sent |-> t]
        ELSE IF service = "raise"
            THEN [raised |-> FALSE, value |-> NULL, called |-> TRUE, sent |-> t]
        ELSE [raised |-> FALSE, value |-> Some(Embedding(t)), called |-> TRUE, sent |-> t]

\* one entry of the call log: the function, its text argument, the query
\* vector, count (or candidate index) and threshold of a search, and
\* whether the call raised
Call(fn, text, query, n, threshold, raised) ==
    [fn |-> fn, text |-> text, query |-> query, n |-> n, threshold |-> threshold,
     raised |-> raised]

TextCall(fn, text, raised) == Call(fn, text, NULL, 0, NULL, raised)

EmbeddingCalls(text, r) ==
    <<TextCall("get_embedding", text, r.raised)>>
        \o (IF r.called
            THEN <<TextCall("embeddings.create", r.sent, r.value = NULL)>>
            ELSE << >>)

TransplantCalls(i, r) ==
    <<Call("generate_v12_joke", << >>, NULL, i, NULL, r.raised)>>
        \o (IF r.called
            THEN <<Call("generate_content", << >>, NULL, i, NULL, FALSE)>>
            ELSE << >>)

\* "if x:" for an optional text: neither None nor the empty string
Truthy(o) == o # NULL /\ Val(o) # << >>

\* what the text-generation service does when asked for a bridge: it
\* fails, or replies with a text that may be quoted
BridgeChars == {"a", " ", "\"", "'"}

\* create_joke_bridge (the same in both front ends): the optional bridge
\* string; a service failure gives None, a reply of quotes and whitespace
\* can give the empty string
create_joke_bridge(joke_text, reply) ==
    IF ~reply.ok THEN NULL
    ELSE Some(StripChars(StripChars(Strip(reply.content), {"\""}), {"'"}))

\* the dict enrich_joke returns: an absent key is NULL
EnrichMap(bridge_content, bridge_embedding) ==
    [bridge_content |-> bridge_content, bridge_embedding |-> bridge_embedding]

\* the calls enrich_joke made, given the bridge and the embedding result
EnrichCalls(joke_text, bridge, e) ==
    <<TextCall("create_joke_bridge", joke_text, FALSE)>>
        \o (IF Truthy(bridge) THEN EmbeddingCalls(Val(bridge), e) ELSE << >>)

\* variant: the bridge embedding is computed from the joke text
enrich_joke_embedding_joke(joke_text, reply, service) ==
    LET bridge == create_joke_bridge(joke_text, reply)
        e == get_embedding(joke_text, service)
    IN  [raised |-> FALSE,
         value |-> IF ~Truthy(bridge) THEN EnrichMap(NULL, NULL)
                   ELSE IF e.raised THEN EnrichMap(bridge, NULL)
                   ELSE EnrichMap(bridge, e.value),
         calls |-> EnrichCalls(joke_text, bridge, e)]

\* variant: enrich_joke without its try/except
enrich_joke_raising(joke_text, reply, service) ==
    LET bridge == create_joke_bridge(joke_text, reply)
        e == get_embedding(Val(bridge), service)
    IN  [raised |-> Truthy(bridge) /\ e.raised,
         value |-> IF ~Truthy(bridge) THEN EnrichMap(NULL, NULL)
                   ELSE EnrichMap(bridge, e.value),
         calls |-> EnrichCalls(joke_text, bridge, e)]

\* src/app/app.py enrich_joke: a raise of get_embedding is caught after
\* bridge_content was stored in the result
enrich_joke(joke_text, reply, service) ==
    LET bridge == create_joke_bridge(joke_text, reply)
        e == get_embedding(Val(bridge), service)
    IN  [raised |-> FALSE,
         value |-> IF ~Truthy(bridge) THEN EnrichMap(NULL, NULL)
                   ELSE IF e.raised THEN EnrichMap(bridge, NULL)
                   ELSE EnrichMap(bridge, e.value),
         calls |-> EnrichCalls(joke_text, bridge, e)]

\* src/joke_manager_app.py enrich_joke: no try/except of its own
st_enrich_joke(joke_text, reply, service) ==
    LET bridge == create_joke_bridge(joke_text, reply)
        e == st_get_embedding(Val(bridge), service)
    IN  [raised |-> Truthy(bridge) /\ e.raised,
         value |-> IF ~Truthy(bridge) THEN EnrichMap(NULL, NULL)
                   ELSE EnrichMap(bridge, e.value),
         calls |-> EnrichCalls(joke_text, bridge, e)]

\* how a call of generate_v12_joke ended as generate_campaign sees it
Outcome(r) == IF r.raised THEN "raise" ELSE IF r.value.success THEN "ok" ELSE "fail"

\* the table after a search procedure ran: the procedures only read it
AfterRpc(st) == st

\* variant: results.insert(0, entry)
EmitFirst(res, entry) == <<entry>> \o res

\* results.append(entry)
Emit(res, entry) == Append(res, entry)

\* variant: a failed candidate ends the loop (break instead of continue)
LoopNextBreak(i, r) == IF Outcome(r) = "ok" THEN i + 1 ELSE Len(matches) + 1

\* variant: a failed candidate is tried again
LoopNextRetry(i, r) == IF Outcome(r) = "ok" THEN i + 1 ELSE i

\* for i, match in enumerate(...): the index of the candidate the loop
\* turns to after candidate i, whatever the call r did
LoopNext(i, r) == i + 1

----------------------------------------------------------------------------
(* Flask: generate_campaign *)

\* variant: return jsonify({'error': ...}) without the status code
ErrorResponseDefaultStatus(code, msg) ==
    [status |-> 200, keys |-> {"error"}, success |-> FALSE, error |-> msg,
     headline |-> << >>, themes |-> << >>, total_generated |-> 0, jokes |-> << >>]

\* return jsonify({'error': msg}), code
ErrorResponse(code, msg) ==
    [status |-> code, keys |-> {"error"}, success |-> FALSE, error |-> msg,
     headline |-> << >>, themes |-> << >>, total_generated |-> 0, jokes |-> << >>]

EmptyCampaignResponse(h, th) ==
    [status |-> 200,
     keys |-> {"success", "headline", "themes", "total_generated", "jokes", "message"},
     success |-> TRUE, error |-> "",
     headline |-> h, themes |-> th, total_generated |-> 0, jokes |-> << >>]

\* variant: total_generated counts the candidates, not the jokes
CampaignResponseCountingCandidates(h, th, res) ==
    [status |-> 200,
     keys |-> {"success", "headline", "themes", "total_generated", "jokes"},
     success |-> TRUE, error |-> "",
     headline |-> h, themes |-> th, total_generated |-> Len(matches), jokes |-> res]

CampaignResponse(h, th, res) ==
    [status |-> 200,
     keys |-> {"success", "headline", "themes", "total_generated", "jokes"},
     success |-> TRUE, error |-> "",
     headline |-> h, themes |-> th, total_generated |-> Len(res), jokes |-> res]

\* the item appended to results for a candidate whose transplant succeeded
CampaignEntry(match, generated) ==
    [original_id |-> match.id,
     reference_joke |-> Preview(match.searchable_text),
     bridge_content |-> match.bridge_content,
     similarity |-> Round3(match.similarity),
     engine |-> Get(generated, "engine_selected", ""),
     reasoning |-> Get(generated, "reasoning", ""),
     brainstorming |-> Get(generated, "brainstorming", "[]"),
     selected_strategy |-> Get(generated, "selected_strategy", ""),
     joke |-> Get(generated, "draft_joke", "")]

\* request parsing, validation and the configuration check
GcStart(raw, c) ==
    /\ app = "flask"
    /\ pc = "idle"
    /\ headline' = Strip(raw)
    /\ count' = c
    /\ IF Strip(raw) = << >>
       THEN /\ response' = Some(ErrorResponse(400, "No headline provided"))
            /\ pc' = "done"
       ELSE IF ~gemini_client
       THEN /\ response' = Some(ErrorResponse(500, "Gemini API not configured"))
            /\ pc' = "done"
       ELSE /\ response' = response
            /\ pc' = "expand"
    /\ UNCHANGED << app, gemini_client, store, themes, theme_failed, query_embedding,
                    matches, idx, results, outcome, calls, ui >>
    /\ UNCHANGED campaignFrame

\* 1. themes = expand_headline_to_themes(headline)
GcExpand(reply) ==
    /\ app = "flask"
    /\ pc = "expand"
    /\ themes' = expand_headline_to_themes(headline, reply)
    /\ theme_failed' = ~reply.ok
    /\ calls' = Append(calls, TextCall("expand_headline_to_themes", headline, FALSE))
    /\ pc' = "embed"
    /\ UNCHANGED << app, gemini_client, store, headline, count, query_embedding,
                    matches, idx, results, outcome, response, ui >>
    /\ UNCHANGED campaignFrame

\* 2. query_embedding = get_embedding(themes); a raise reaches the outer except
GcEmbed(service) ==
    /\ app = "flask"
    /\ pc = "embed"
    /\ LET r == get_embedding(themes, service)
       IN  /\ calls' = calls \o EmbeddingCalls(themes, r)
           /\ IF r.raised
              THEN /\ response' = Some(ErrorResponse(500, "exception"))
                   /\ pc' = "done"
                   /\ query_embedding' = query_embedding
              ELSE /\ response' = response
                   /\ pc' = "search"
                   /\ query_embedding' = r.value
    /\ UNCHANGED << app, gemini_client, store, headline, count, themes, theme_failed,
                    matches, idx, results, outcome, ui >>
    /\ UNCHANGED campaignFrame

\* if not matches.data: the empty campaign; otherwise enter the loop
GcAfterSearch(data) ==
    /\ matches' = data
    /\ IF data = << >>
       THEN /\ response' = Some(EmptyCampaignResponse(headline, themes))
            /\ pc' = "done"
            /\ idx' = idx
       ELSE /\ response' = response
            /\ pc' = "loop"
            /\ idx' = 1

\* supabase.rpc('match_joke_bridges', {query_embedding, match_count}): it
\* raises, or returns rows
GcSearch ==
    /\ app = "flask"
    /\ pc = "search"
    /\ store' = AfterRpc(store)
    /\ \/ /\ calls' = Append(calls, Call("match_joke_bridges", << >>, query_embedding,
                                         count, NULL, TRUE))
          /\ pc' = "fallback"
          /\ UNCHANGED << matches, idx, response >>
       \/ /\ calls' = Append(calls, Call("match_joke_bridges", << >>, query_embedding,
                                         count, NULL, FALSE))
          /\ \E data \in BridgeSearchResults(store, count) : GcAfterSearch(data)
    /\ UNCHANGED << app, gemini_client, headline, count, themes, theme_failed,
                    query_embedding, results, outcome, ui >>
    /\ UNCHANGED campaignFrame

\* variant: a failed fallback search counts as a search without results
GcFallbackSwallowing ==
    /\ app = "flask"
    /\ pc = "fallback"
    /\ store' = AfterRpc(store)
    /\ \/ /\ calls' = Append(calls, Call("match_jokes", << >>, query_embedding, count,
                                         Some(FallbackThreshold), TRUE))
          /\ GcAfterSearch(<< >>)
       \/ /\ calls' = Append(calls, Call("match_jokes", << >>, query_embedding, count,
                                         Some(FallbackThreshold), FALSE))
          /\ \E data \in ContentSearchResults(store, FallbackThreshold, count) :
                 GcAfterSearch(data)
    /\ UNCHANGED << app, gemini_client, headline, count, themes, theme_failed,
                    query_embedding, results, outcome, ui >>
    /\ UNCHANGED campaignFrame

\* except: supabase.rpc('match_jokes', {query_embedding, match_threshold, match_count})
GcFallback ==
    /\ app = "flask"
    /\ pc = "fallback"
    /\ store' = AfterRpc(store)
    /\ \/ /\ calls' = Append(calls, Call("match_jokes", << >>, query_embedding, count,
                                         Some(FallbackThreshold), TRUE))
          /\ response' = Some(ErrorResponse(500, "exception"))
          /\ pc' = "done"
          /\ UNCHANGED << matches, idx >>
       \/ /\ calls' = Append(calls, Call("match_jokes", << >>, query_embedding, count,
                                         Some(FallbackThreshold), FALSE))
          /\ \E data \in ContentSearchResults(store, FallbackThreshold, count) :
                 GcAfterSearch(data)
    /\ UNCHANGED << app, gemini_client, headline, count, themes, theme_failed,
                    query_embedding, results, outcome, ui >>
    /\ UNCHANGED campaignFrame

\* variant: the loop writes the drafted joke back to the reference record
GcTransplantSaving(backend) ==
    /\ app = "flask"
    /\ pc = "loop"
    /\ idx <= Len(matches)
    /\ LET match == matches[idx]
           r == generate_v12_joke(gemini_client, backend)
           res == IF Outcome(r) = "ok"
                  THEN Emit(results, CampaignEntry(match, r.value))
                  ELSE results
       IN  /\ results' = res
           /\ outcome' = Append(outcome, Outcome(r))
           /\ calls' = calls \o TransplantCalls(idx, r)
           /\ idx' = LoopNext(idx, r)
           /\ store' = IF Outcome(r) = "ok"
                       THEN [store EXCEPT ![match.id] =
                                [@ EXCEPT !.original_text = match.searchable_text]]
                       ELSE store
           /\ IF LoopNext(idx, r) > Len(matches)
              THEN /\ response' = Some(CampaignResponse(headline, themes, res))
                   /\ pc' = "done"
              ELSE /\ response' = response
                   /\ pc' = "loop"
    /\ UNCHANGED << app, gemini_client, headline, count, themes, theme_failed,
                    query_embedding, matches, ui >>
    /\ UNCHANGED campaignFrame

\* 3. one iteration of the loop over matches.data, and the final response
\* after the last one
GcTransplant(backend) ==
    /\ app = "flask"
    /\ pc = "loop"
    /\ idx <= Len(matches)
    /\ LET match == matches[idx]
           r == generate_v12_joke(gemini_client, backend)
           res == IF Outcome(r) = "ok"
                  THEN Emit(results, CampaignEntry(match, r.value))
                  ELSE results
       IN  /\ results' = res
           /\ outcome' = Append(outcome, Outcome(r))
           /\ calls' = calls \o TransplantCalls(idx, r)
           /\ idx' = LoopNext(idx, r)
           /\ store' = store
           /\ IF LoopNext(idx, r) > Len(matches)
              THEN /\ response' = Some(CampaignResponse(headline, themes, res))
                   /\ pc' = "done"
              ELSE /\ response' = response
                   /\ pc' = "loop"
    /\ UNCHANGED << app, gemini_client, headline, count, themes, theme_failed,
                    query_embedding, matches, ui >>
    /\ UNCHANGED campaignFrame

----------------------------------------------------------------------------
(* Streamlit: the Generate tab *)

UiInit == [state |-> "none", label |-> "", errors |-> << >>, shown |-> << >>,
           crashed |-> FALSE]

StError(u, msg) == [u EXCEPT !.errors = Append(@, msg)]

StatusUpdate(u, label, state) == [u EXCEPT !.label = label, !.state = state]

\* how the call ended as the Generate tab sees it: it raised, it returned
\* the failure value, or it returned the parsed model output
StOutcome(r) == IF r.raised THEN "raise" ELSE IF r.value = FailDict THEN "fail" ELSE "ok"

\* if gen_res and "draft_joke" in gen_res
StAccepted(r) == ~r.raised /\ r.value.keys # {} /\ "draft_joke" \in r.value.keys

StEntry(cand, gen_res) ==
    [reference |-> cand.searchable_text, bridge |-> cand.bridge_content,
     generated |-> gen_res]

\* for res in results: the rendering stops at an entry that is no dict
Rendered(res) ==
    LET bad == {k \in 1..Len(res) : res[k].generated.kind # "dict"}
    IN  IF bad = {} THEN res
        ELSE SubSeq(res, 1, (CHOOSE k \in bad : \A j \in bad : k <= j) - 1)

\* if gen_btn and headline: ...; if not gemini_client: st.error(...)
TgStart(raw, c) ==
    /\ app = "streamlit"
    /\ pc = "idle"
    /\ headline' = raw
    /\ count' = c
    /\ IF raw = << >>
       THEN /\ ui' = ui
            /\ pc' = "done"
       ELSE IF ~gemini_client
       THEN /\ ui' = StError(ui, "Gemini API not configured.")
            /\ pc' = "done"
       ELSE /\ ui' = StatusUpdate(ui, "generating campaign...", "running")
            /\ pc' = "expand"
    /\ UNCHANGED << app, gemini_client, store, themes, theme_failed, query_embedding,
                    matches, idx, results, outcome, calls, response >>
    /\ UNCHANGED campaignFrame

\* themes = expand_headline_to_themes(headline)
TgExpand(reply) ==
    /\ app = "streamlit"
    /\ pc = "expand"
    /\ themes' = expand_headline_to_themes(headline, reply)
    /\ theme_failed' = ~reply.ok
    /\ ui' = IF reply.ok THEN ui ELSE StError(ui, "Theme expansion failed")
    /\ calls' = Append(calls, TextCall("expand_headline_to_themes", headline, FALSE))
    /\ pc' = "embed"
    /\ UNCHANGED << app, gemini_client, store, headline, count, query_embedding,
                    matches, idx, results, outcome, response >>
    /\ UNCHANGED campaignFrame

\* theme_embed = get_embedding(themes)
TgEmbed(service) ==
    /\ app = "streamlit"
    /\ pc = "embed"
    /\ LET r == st_get_embedding(themes, service)
       IN  /\ calls' = calls \o EmbeddingCalls(themes, r)
           /\ query_embedding' = r.value
           /\ ui' = IF r.called /\ r.value = NULL THEN StError(ui, "Embedding failed") ELSE ui
    /\ pc' = "search"
    /\ UNCHANGED << app, gemini_client, store, headline, count, themes, theme_failed,
                    matches, idx, results, outcome, response >>
    /\ UNCHANGED campaignFrame

\* if not candidates: "No matches found"; otherwise enter the loop
TgAfterSearch(candidates, u) ==
    /\ matches' = candidates
    /\ IF candidates = << >>
       THEN /\ ui' = StatusUpdate(u, "No matches found", "error")
            /\ pc' = "done"
            /\ idx' = idx
       ELSE /\ ui' = u
            /\ pc' = "loop"
            /\ idx' = 1

\* supabase.rpc('match_joke_bridges', {query_embedding, match_count: count * 2});
\* candidates = matches.data[:count], or [] after st.error when it raises
TgSearch ==
    /\ app = "streamlit"
    /\ pc = "search"
    /\ store' = AfterRpc(store)
    /\ \/ /\ calls' = Append(calls, Call("match_joke_bridges", << >>, query_embedding,
                                         count * 2, NULL, TRUE))
          /\ TgAfterSearch(<< >>, StError(ui, "DB Error"))
       \/ /\ calls' = Append(calls, Call("match_joke_bridges", << >>, query_embedding,
                                         count * 2, NULL, FALSE))
          /\ \E data \in BridgeSearchResults(store, count * 2) :
                 TgAfterSearch(SubSeq(data, 1, Min(count, Len(data))), ui)
    /\ UNCHANGED << app, gemini_client, headline, count, themes, theme_failed,
                    query_embedding, results, outcome, response >>
    /\ UNCHANGED campaignFrame

\* one iteration of the loop over candidates; after the last one the status
\* is completed and the results are rendered; an exception out of
\* generate_v12_joke ends the script run
TgTransplant(backend) ==
    /\ app = "streamlit"
    /\ pc = "loop"
    /\ idx <= Len(matches)
    /\ LET cand == matches[idx]
           r == st_generate_v12_joke(gemini_client, backend)
           res == IF StAccepted(r)
                  THEN Emit(results, StEntry(cand, r.value))
                  ELSE results
       IN  /\ results' = res
           /\ outcome' = Append(outcome, StOutcome(r))
           /\ calls' = calls \o TransplantCalls(idx, r)
           /\ idx' = idx + 1
           /\ IF r.raised
              THEN /\ ui' = [StatusUpdate(ui, "Generating joke", "running")
                                EXCEPT !.crashed = TRUE]
                   /\ pc' = "done"
              ELSE IF idx = Len(matches)
              THEN /\ ui' = [StatusUpdate(ui, "Campaign Complete!", "complete")
                                EXCEPT !.shown = Rendered(res),
                                       !.crashed = (Rendered(res) # res)]
                   /\ pc' = "done"
              ELSE /\ ui' = StatusUpdate(ui, "Generating joke", "running")
                   /\ pc' = "loop"
    /\ UNCHANGED << app, gemini_client, store, headline, count, themes, theme_failed,
                    query_embedding, matches, response >>
    /\ UNCHANGED campaignFrame

----------------------------------------------------------------------------
(* The campaign specification: one request to one of the front ends *)

CountValues == 0..MaxCount

InitCampaign ==
    /\ app \in {"flask", "streamlit"}
    /\ gemini_client \in BOOLEAN
    /\ store = InitialStore
    /\ pc = "idle"
    /\ headline = << >>
    /\ count = 0
    /\ themes = << >>
    /\ theme_failed = FALSE
    /\ query_embedding = NULL
    /\ matches = << >>
    /\ idx = 0
    /\ results = << >>
    /\ outcome = << >>
    /\ calls = << >>
    /\ response = NULL
    /\ ui = UiInit
    /\ call_in = NULL
    /\ call_out = NULL
    /\ next_id = 0
    /\ job = NULL
    /\ last = NULL
    /\ session_state = NoSession

NextCampaign ==
    \/ \E raw \in RawTexts, c \in CountValues : GcStart(raw, c)
    \/ \E reply \in ExpandReplies : GcExpand(reply)
    \/ \E service \in EmbeddingServices : GcEmbed(service)
    \/ GcSearch
    \/ GcFallback
    \/ \E backend \in Backends : GcTransplant(backend)
    \/ \E raw \in RawTexts, c \in CountValues \ {0} : TgStart(raw, c)
    \/ \E reply \in ExpandReplies : TgExpand(reply)
    \/ \E service \in EmbeddingServices : TgEmbed(service)
    \/ TgSearch
    \/ \E backend \in Backends : TgTransplant(backend)

SpecCampaign == InitCampaign /\ [][NextCampaign]_vars

----------------------------------------------------------------------------
(* Properties of campaign generation *)

Flask == app = "flask"

Streamlit == app = "streamlit"

Done == pc = "done"

SearchFns == {"match_joke_bridges", "match_jokes"}

\* positions of the log entries of a function
CallsOf(fn) == {k \in 1..Len(calls) : calls[k].fn = fn}

\* positions of the log entries of a function for candidate i
CallsFor(fn, i) == {k \in CallsOf(fn) : calls[k].n = i}

SearchCalls == {k \in 1..Len(calls) : calls[k].fn \in SearchFns}

OkCandidates == {i \in 1..Len(outcome) : outcome[i] = "ok"}

\* the Flask handler returned the success response of a campaign
FlaskSuccess ==
    /\ response # NULL
    /\ Val(response).status = 200
    /\ "success" \in Val(response).keys
    /\ Val(response).success

\* the Flask handler returned an error
FlaskError ==
    /\ response # NULL
    /\ Val(response).status # 200
    /\ "error" \in Val(response).keys
    /\ Val(response).jokes = << >>

StrictlyIncreasing(f) == \A k, l \in DOMAIN f : k < l => f[k] < f[l]

\* C1: in the Flask generate_campaign, once the search returned candidates,
\* whatever each transplant does (success, failure value, exception),
\* generate_v12_joke is invoked for every candidate, the response is a
\* success, and its jokes are exactly the candidates whose transplant
\* succeeded.
C1_PartialSuccess ==
    (Flask /\ Done /\ matches # << >>) =>
        /\ Len(outcome) = Len(matches)
        /\ \A i \in 1..Len(matches) : CallsFor("generate_v12_joke", i) # {}
        /\ FlaskSuccess
        /\ Len(Val(response).jokes) = Cardinality(OkCandidates)
        /\ {Val(response).jokes[k].original_id : k \in 1..Len(Val(response).jokes)}
               = {matches[i].id : i \in OkCandidates}

\* a run where the first candidate raised, the second returned a failure
\* value and the third was still attempted and emitted
C1_Witness ==
    /\ Flask /\ Done /\ FlaskSuccess
    /\ outcome = <<"raise", "fail", "ok">>
    /\ Len(Val(response).jokes) = 1
    /\ Val(response).jokes[1].original_id = matches[3].id

\* js is matches with some candidates removed, in the order of matches
FlaskSubsequence(js) ==
    \E f \in [1..Len(js) -> 1..Len(matches)] :
        /\ StrictlyIncreasing(f)
        /\ \A k \in 1..Len(js) :
              /\ js[k].original_id = matches[f[k]].id
              /\ js[k].similarity = Round3(matches[f[k]].similarity)

StreamlitSubsequence(js) ==
    \E f \in [1..Len(js) -> 1..Len(matches)] :
        /\ StrictlyIncreasing(f)
        /\ \A k \in 1..Len(js) : js[k].reference = matches[f[k]].searchable_text

\* C2: in both front ends the emitted jokes are an order-preserving
\* subsequence of the candidates in retrieval order, and the emitted
\* similarity scores (Flask) are non-increasing.
C2_OrderPreserved ==
    /\ Flask =>
          /\ FlaskSubsequence(results)
          /\ \A k, l \in 1..Len(results) :
                k < l => results[k].similarity >= results[l].similarity
          /\ FlaskSuccess => Val(response).jokes = results
    /\ Streamlit =>
          /\ StreamlitSubsequence(results)
          /\ StreamlitSubsequence(ui.shown)

\* a run of three candidates of different scores where the middle one
\* failed and the other two were emitted
C2_Witness ==
    /\ Flask /\ Done /\ FlaskSuccess
    /\ outcome = <<"ok", "fail", "ok">>
    /\ Len(Val(response).jokes) = 2
    /\ Val(response).jokes[1].original_id = matches[1].id
    /\ Val(response).jokes[2].original_id = matches[3].id
    /\ Val(response).jokes[1].similarity > Val(response).jokes[2].similarity

\* the last search of the run returned, and returned no rows
SearchReturnedNothing ==
    /\ SearchCalls # {}
    /\ \A k \in SearchCalls : (\A j \in SearchCalls : j <= k) => ~calls[k].raised
    /\ matches = << >>

\* C3: when the similarity search returns zero candidates, both front ends
\* end in a non-error outcome with no jokes and without a transplant call.
C3_EmptyCampaignIsNoError ==
    (Done /\ SearchReturnedNothing) =>
        /\ CallsOf("generate_v12_joke") = {}
        /\ Flask => (FlaskSuccess /\ Val(response).jokes = << >>)
        /\ Streamlit => (ui.state # "error" /\ ui.shown = << >>)

\* C4: no similarity search is ever issued with a null query vector.
C4_NoSearchWithNullVector ==
    \A k \in SearchCalls : calls[k].query # NULL

\* every search the run issued raised
SearchFailed ==
    /\ SearchCalls # {}
    /\ \A k \in SearchCalls : calls[k].raised
    /\ pc # "fallback"

\* C5: when the similarity search fails (Flask: the bridge search and its
\* fallback both raise), the run ends with an error, no transplant call is
\* made and no jokes are returned or shown.
C5_SearchFailureAborts ==
    SearchFailed =>
        /\ Done
        /\ CallsOf("generate_v12_joke") = {}
        /\ results = << >>
        /\ Flask => FlaskError
        /\ Streamlit =>
              /\ ui.state = "error"
              /\ \E k \in 1..Len(ui.errors) : ui.errors[k] = "DB Error"
              /\ ui.shown = << >>

\* the Flask run whose bridge search and fallback search both raised
C5_Witness ==
    /\ Flask /\ Done
    /\ Cardinality({k \in SearchCalls : calls[k].raised}) = 2
    /\ FlaskError

\* C6: in both front ends, a bridge search that raised is followed by
\* exactly one content search (match_jokes) with the same query vector and
\* count and a non-zero threshold, and the bridge search has no threshold.
C6_FallbackOnBridgeFailure ==
    /\ \A k \in CallsOf("match_joke_bridges") : calls[k].threshold = NULL
    /\ \A k \in CallsOf("match_joke_bridges") :
          (calls[k].raised /\ pc # "fallback") =>
              /\ Cardinality(CallsOf("match_jokes")) = 1
              /\ \A j \in CallsOf("match_jokes") :
                    /\ j = k + 1
                    /\ calls[j].query = calls[k].query
                    /\ calls[j].n = calls[k].n
                    /\ calls[j].threshold # NULL
                    /\ Val(calls[j].threshold) > 0

\* C7: in the Flask generate_campaign, a failed theme expansion raises
\* nothing and leaves themes equal to the headline: the headline is what is
\* embedded, searched with and reported, and the run goes on to the
\* embedding step.
C7_ThemeFallback ==
    (Flask /\ theme_failed) =>
        /\ themes = headline
        /\ pc = "embed" => response = NULL
        /\ \A k \in CallsOf("get_embedding") : calls[k].text = headline
        /\ \A k \in CallsOf("embeddings.create") :
              calls[k].text = NormalizeForEmbedding(headline)
        /\ \A k \in SearchCalls :
              calls[k].query = Some(Embedding(NormalizeForEmbedding(headline)))
        /\ Done => CallsOf("get_embedding") # {}
        /\ FlaskSuccess => Val(response).themes = headline

\* a campaign that produced a joke after the expansion of a headline with
\* an inner newline had failed
C7_Witness ==
    /\ Flask /\ Done /\ theme_failed /\ FlaskSuccess
    /\ headline = <<"a", "\n", "a">>
    /\ Val(response).themes = <<"a", "\n", "a">>
    /\ Len(Val(response).jokes) >= 1

\* C8: campaign generation never changes the table, on any path of either
\* front end.
C8_StoreReadOnly == store = InitialStore

\* a finished campaign with an emitted joke and a failed candidate, after a
\* bridge search that raised and a fallback search
C8_Witness ==
    /\ Done
    /\ CallsOf("match_jokes") # {}
    /\ Len(results) >= 1
    /\ \E i \in 1..Len(outcome) : outcome[i] = "fail"
    /\ store = InitialStore

\* C9: in the Flask generate_campaign no step is repeated: the expansion and
\* get_embedding are invoked once, and generate_v12_joke once per candidate.
C9_NoRetries ==
    Flask =>
        /\ Cardinality(CallsOf("expand_headline_to_themes"))
              = (IF pc \in {"embed", "search", "fallback", "loop"} \/ calls # << >>
                 THEN 1 ELSE 0)
        /\ Cardinality(CallsOf("get_embedding"))
              = (IF pc \in {"search", "fallback", "loop"} \/ Len(calls) >= 2
                 THEN 1 ELSE 0)
        /\ Cardinality(CallsOf("embeddings.create")) <= 1
        /\ \A i \in 1..Len(matches) :
              /\ Cardinality(CallsFor("generate_v12_joke", i)) = (IF i < idx THEN 1 ELSE 0)
              /\ Cardinality(CallsFor("generate_content", i)) <= 1
        /\ (Done /\ matches # << >>) =>
              Cardinality(CallsOf("generate_v12_joke")) = Len(matches)

\* a finished run of three candidates, two of which failed
C9_Witness ==
    /\ Flask /\ Done
    /\ Len(matches) = 3
    /\ outcome = <<"fail", "fail", "ok">>
    /\ Cardinality(CallsOf("generate_v12_joke")) = 3

\* C10: a candidate is emitted only if the parsed model output had all five
\* required fields.
C10_AllFieldsRequired ==
    /\ Flask =>
          \A k \in 1..Len(results) :
              /\ results[k].engine = "v"
              /\ results[k].reasoning = "v"
              /\ results[k].brainstorming = "v"
              /\ results[k].selected_strategy = "v"
              /\ results[k].joke = "v"
    /\ Streamlit =>
          \A k \in 1..Len(results) : RequiredFields \subseteq results[k].generated.keys


----------------------------------------------------------------------------
(* The transplant engine called on its own *)

\* the variables of a campaign request while none has been made
IdleCampaign ==
    /\ pc = "idle"
    /\ headline = << >>
    /\ count = 0
    /\ themes = << >>
    /\ theme_failed = FALSE
    /\ query_embedding = NULL
    /\ matches = << >>
    /\ idx = 0
    /\ results = << >>
    /\ outcome = << >>
    /\ calls = << >>
    /\ response = NULL
    /\ ui = UiInit

\* the initial table, and no campaign request has been made
NoCampaign ==
    /\ store = InitialStore
    /\ IdleCampaign

\* a call of generate_v12_joke, with what the generative backend would do
TransplantInputs ==
    {[fn |-> "generate_v12_joke", backend |-> b] : b \in Backends}

\* generate_v12_joke(headline, reference_joke) of the running front end
CallTransplant ==
    /\ call_in # NULL
    /\ call_out = NULL
    /\ Val(call_in).fn = "generate_v12_joke"
    /\ LET r == IF app = "flask"
                THEN generate_v12_joke(gemini_client, Val(call_in).backend)
                ELSE st_generate_v12_joke(gemini_client, Val(call_in).backend)
       IN  /\ call_out' = Some(r)
           /\ calls' = calls \o TransplantCalls(0, r)
    /\ UNCHANGED << app, gemini_client, store, call_in, next_id, job, last >>
    /\ UNCHANGED idleVars

InitTransplant ==
    /\ app \in {"flask", "streamlit"}
    /\ gemini_client \in BOOLEAN
    /\ NoCampaign
    /\ call_in \in {Some(c) : c \in TransplantInputs}
    /\ call_out = NULL
    /\ next_id = 0
    /\ job = NULL
    /\ last = NULL
    /\ session_state = NoSession

NextTransplant == CallTransplant

SpecTransplant == InitTransplant /\ [][NextTransplant]_vars

\* a deployment without a Gemini key: the engine can be called, and a
\* campaign can be requested
InitUnconfigured ==
    /\ InitTransplant
    /\ ~gemini_client

NextUnconfigured ==
    \/ CallTransplant
    \/ \E raw \in RawTexts, c \in CountValues : GcStart(raw, c)
    \/ \E raw \in RawTexts, c \in CountValues \ {0} : TgStart(raw, c)

SpecUnconfigured == InitUnconfigured /\ [][NextUnconfigured]_vars

----------------------------------------------------------------------------
(* Properties of the transplant engine *)

\* the engine was called and has returned (or raised)
TransplantCalled ==
    /\ call_in # NULL
    /\ call_out # NULL
    /\ Val(call_in).fn = "generate_v12_joke"

\* the call produced the model's output, not the failure value
TransplantSucceeded ==
    /\ ~Val(call_out).raised
    /\ Val(call_out).value # FailDict
    /\ Val(call_out).value.kind = "dict"
    /\ Flask => Val(call_out).value.success

\* the reply is an object with other text before or after it
WrapsObject(text, F) ==
    \E n \in 0..1, m \in 0..1 :
        /\ n + m > 0
        /\ text = [i \in 1..n |-> Junk] \o Object(F) \o [i \in 1..m |-> Junk]

\* the block of the reply from its first opening brace to its last closing
\* brace, if there is one, does not parse as an object
NoObjectInside(text) ==
    \A p \in 1..Len(text), q \in 1..Len(text) :
        (p <= q /\ text[p] = LB /\ text[q] = RB) =>
            \/ ParseJson(SubSeq(text, p, q)) = NULL
            \/ Val(ParseJson(SubSeq(text, p, q))).kind # "dict"
            \/ \E k \in 1..(p - 1) : text[k] = LB
            \/ \E k \in (q + 1)..Len(text) : text[k] = RB

\* C11: in both front ends, when the reply of the model does not parse
\* strictly, generate_v12_joke does not raise; a reply that wraps a valid
\* object in other text yields a success carrying the object's fields; and
\* the failure value is returned only when the reply holds no block, from
\* its first opening brace to its last closing brace, that parses as an
\* object.
C11_BestEffortExtraction ==
    (/\ TransplantCalled
     /\ gemini_client
     /\ Val(call_in).backend.kind = "text"
     /\ ParseJson(Val(call_in).backend.text) = NULL) =>
        /\ ~Val(call_out).raised
        /\ \A F \in FieldSets :
              WrapsObject(Val(call_in).backend.text, F) =>
                  /\ TransplantSucceeded
                  /\ F \subseteq Val(call_out).value.keys
        /\ ~TransplantSucceeded => NoObjectInside(Val(call_in).backend.text)

\* C12: with no Gemini client configured, generate_v12_joke returns the
\* failure value without raising and without invoking the generative
\* backend, and a Flask campaign request ends in an error response with no
\* external call made (no theme expansion, embedding, search or transplant).
C12_UnconfiguredSurfacedAtOnce ==
    ~gemini_client =>
        /\ TransplantCalled =>
              /\ ~Val(call_out).raised
              /\ Val(call_out).value = FailDict
              /\ ~Val(call_out).called
              /\ CallsOf("generate_content") = {}
        /\ (Flask /\ Done) =>
              /\ FlaskError
              /\ Val(response).status \in {400, 500}
              /\ \A k \in 1..Len(calls) : calls[k].fn = "generate_v12_joke"

\* the engine was called while the backend would have answered with a
\* complete object, and a campaign with a headline was refused
C12_Witness ==
    /\ ~gemini_client
    /\ TransplantCalled
    /\ Val(call_in).backend = [kind |-> "text", text |-> Object(RequiredFields)]
    /\ Val(call_out).value = FailDict
    /\ Flask /\ Done
    /\ headline # << >>
    /\ Val(response).status = 500


----------------------------------------------------------------------------
(* Properties of the campaign response *)

\* a step the campaign cannot go on without has failed: validation,
\* configuration, the embedding of the themes, or the search
HardFailure ==
    \/ headline = << >>
    \/ ~gemini_client
    \/ \E k \in CallsOf("get_embedding") : calls[k].raised
    \/ SearchFailed

\* C13 as stated: every response of the Flask generate_campaign has a
\* success field, true on a normal or empty campaign, false together with a
\* non-empty error string on every failure path.
C13_SuccessFieldAlways ==
    (Flask /\ response # NULL) =>
        /\ "success" \in Val(response).keys
        /\ Val(response).status = 200 => Val(response).success
        /\ Val(response).status # 200 =>
              /\ ~Val(response).success
              /\ "error" \in Val(response).keys
              /\ Val(response).error # ""

\* C13 amended: a finished Flask generate_campaign has answered; on a normal
\* or empty campaign the answer has status 200 and a success field that is
\* true, and no error field; on every failure path (validation,
\* configuration, hard step failure) it has status 400 or 500 and consists of
\* a non-empty error string alone, with no success field.
C13_SuccessOrError ==
    (Flask /\ Done) =>
        /\ response # NULL
        /\ IF HardFailure
           THEN /\ Val(response).status \in {400, 500}
                /\ Val(response).keys = {"error"}
                /\ Val(response).error # ""
           ELSE /\ Val(response).status = 200
                /\ "success" \in Val(response).keys
                /\ Val(response).success
                /\ "error" \notin Val(response).keys

\* the search and its fallback raised and the answer is the error alone
C13_Witness ==
    /\ Flask /\ Done
    /\ SearchFailed
    /\ Val(response).status = 500
    /\ "success" \notin Val(response).keys
    /\ Val(response).error # ""


\* the count fields of a response: its keys other than the flag, the texts
\* and the list
ReportedCounts(r) ==
    r.keys \ {"success", "error", "message", "headline", "themes", "jokes"}

\* the response reports the themes the search was made with
ReportsThemesUsed ==
    /\ CallsOf("get_embedding") # {}
    /\ \A k \in CallsOf("get_embedding") : calls[k].text = Val(response).themes
    /\ \A k \in SearchCalls :
           calls[k].query \in {NULL, Some(Embedding(NormalizeForEmbedding(Val(response).themes)))}

\* the candidates generate_v12_joke was called for
Attempted == {i \in 1..Len(matches) : CallsFor("generate_v12_joke", i) # {}}

\* C14 as stated: a successful generate_campaign reports the themes used
\* for the search and two counts, of generated jokes and of attempted
\* candidates, with generated = length of the jokes list <= attempted.
C14_ReportsGeneratedAndAttempted ==
    (Flask /\ Done /\ FlaskSuccess) =>
        /\ ReportsThemesUsed
        /\ "total_generated" \in Val(response).keys
        /\ Cardinality(ReportedCounts(Val(response))) >= 2
        /\ Val(response).total_generated = Len(Val(response).jokes)
        /\ Val(response).total_generated <= Cardinality(Attempted)

\* C14 amended: a successful generate_campaign reports the themes used for
\* the search and one count, total_generated, equal to the length of the
\* jokes list and at most the number of candidates attempted; the number of
\* attempted candidates is not part of the response.
C14_ReportsGenerated ==
    (Flask /\ Done /\ FlaskSuccess) =>
        /\ ReportsThemesUsed
        /\ ReportedCounts(Val(response)) = {"total_generated"}
        /\ Val(response).total_generated = Len(Val(response).jokes)
        /\ Val(response).total_generated <= Cardinality(Attempted)
        /\ Cardinality(Attempted) = Len(matches)

\* two candidates attempted under fallen-back themes, one joke generated
C14_Witness ==
    /\ Flask /\ Done /\ FlaskSuccess
    /\ theme_failed
    /\ Val(response).themes = headline
    /\ Cardinality(Attempted) = 2
    /\ Val(response).total_generated = 1


----------------------------------------------------------------------------
(* The embedding and enrichment helpers called on their own *)

\* the texts over an alphabet, up to the longest length
TextsOver(cs) == UNION {[1..n -> cs] : n \in 0..MaxTextLen}

\* the replies of the text-generation service to a bridge request
BridgeReplies ==
    {[ok |-> FALSE, content |-> << >>]}
        \cup {[ok |-> TRUE, content |-> t] : t \in TextsOver(BridgeChars)}

\* the jokes enrichment is asked for
JokeTexts == { <<"a">>, <<"a", " ", "a">> }

\* a helper, its text argument, and what the services it uses would do
HelperInputs ==
    {[fn |-> "get_embedding", text |-> t, service |-> sv,
      reply |-> [ok |-> FALSE, content |-> << >>]] :
        t \in TextsOver(Chars), sv \in EmbeddingServices}
    \cup
    {[fn |-> fn, text |-> t, service |-> sv, reply |-> rp] :
        fn \in {"enrich_joke"}, t \in JokeTexts, sv \in EmbeddingServices,
        rp \in BridgeReplies}

\* get_embedding(text) of the running front end
CallGetEmbedding ==
    /\ call_in # NULL
    /\ call_out = NULL
    /\ Val(call_in).fn = "get_embedding"
    /\ LET r == IF app = "flask"
                THEN get_embedding(Val(call_in).text, Val(call_in).service)
                ELSE st_get_embedding(Val(call_in).text, Val(call_in).service)
       IN  /\ call_out' = Some(r)
           /\ calls' = calls \o EmbeddingCalls(Val(call_in).text, r)
    /\ UNCHANGED << app, gemini_client, store, call_in, next_id, job, last >>
    /\ UNCHANGED idleVars

\* enrich_joke(joke_text) of the running front end
CallEnrichJoke ==
    /\ call_in # NULL
    /\ call_out = NULL
    /\ Val(call_in).fn = "enrich_joke"
    /\ LET r == IF app = "flask"
                THEN enrich_joke(Val(call_in).text, Val(call_in).reply,
                                 Val(call_in).service)
                ELSE st_enrich_joke(Val(call_in).text, Val(call_in).reply,
                                    Val(call_in).service)
       IN  /\ call_out' = Some([raised |-> r.raised, value |-> r.value])
           /\ calls' = calls \o r.calls
    /\ UNCHANGED << app, gemini_client, store, call_in, next_id, job, last >>
    /\ UNCHANGED idleVars

InitHelpers ==
    /\ app \in {"flask", "streamlit"}
    /\ gemini_client = TRUE
    /\ NoCampaign
    /\ call_in \in {Some(c) : c \in HelperInputs}
    /\ call_out = NULL
    /\ next_id = 0
    /\ job = NULL
    /\ last = NULL
    /\ session_state = NoSession

NextHelpers ==
    \/ CallGetEmbedding
    \/ CallEnrichJoke

SpecHelpers == InitHelpers /\ [][NextHelpers]_vars

----------------------------------------------------------------------------
(* Properties of the helpers *)

HelperCalled(fn) ==
    /\ call_in # NULL
    /\ call_out # NULL
    /\ Val(call_in).fn = fn

\* nothing but spaces and newlines
Blank(t) == \A i \in 1..Len(t) : t[i] \in Whitespace

\* sent is t from its first to its last character that is no space or
\* newline, with the newlines in between turned into spaces
NormalizedFrom(t, sent) ==
    /\ sent # << >>
    /\ \A i \in 1..Len(sent) : sent[i] # "\n"
    /\ sent[1] # " " /\ sent[Len(sent)] # " "
    /\ \E lo \in 1..Len(t) :
          /\ lo + Len(sent) - 1 <= Len(t)
          /\ \A i \in 1..Len(sent) :
                sent[i] = IF t[lo + i - 1] = "\n" THEN " " ELSE t[lo + i - 1]
          /\ \A i \in 1..Len(t) :
                (i < lo \/ i > lo + Len(sent) - 1) => t[i] \in Whitespace

\* C15: in both front ends, get_embedding on a text that is empty once its
\* newlines are replaced by spaces and it is trimmed returns null without
\* calling the embedding service; on any other text it calls the service
\* exactly once, with the normalized text.
C15_EmbeddingNormalization ==
    HelperCalled("get_embedding") =>
        IF Blank(Val(call_in).text)
        THEN /\ ~Val(call_out).raised
             /\ Val(call_out).value = NULL
             /\ CallsOf("embeddings.create") = {}
        ELSE /\ Cardinality(CallsOf("embeddings.create")) = 1
             /\ \A k \in CallsOf("embeddings.create") :
                   NormalizedFrom(Val(call_in).text, calls[k].text)
             /\ (~Val(call_out).raised /\ Val(call_out).value # NULL) =>
                   \A k \in CallsOf("embeddings.create") :
                       Val(call_out).value = Some(Embedding(calls[k].text))

\* a text with an inner newline was embedded as "a a", in one service call
C15_Witness ==
    /\ HelperCalled("get_embedding")
    /\ Val(call_in).text = <<"a", "\n", "a">>
    /\ Val(call_out).value = Some(Embedding(<<"a", " ", "a">>))
    /\ Cardinality(CallsOf("embeddings.create")) = 1

\* C16: in both front ends, when the embedding service fails, get_embedding
\* returns null to its caller and does not raise.
C16_EmbeddingFailureIsSoft ==
    (/\ HelperCalled("get_embedding")
     /\ Val(call_in).service = "raise"
     /\ ~Blank(Val(call_in).text)) =>
        /\ ~Val(call_out).raised
        /\ Val(call_out).value = NULL


\* the map enrich_joke returned
EnrichResult == Val(call_out).value

\* C18: the map returned by enrich_joke (either front end) is empty, or
\* holds bridge_content alone, or bridge_content and bridge_embedding;
\* bridge_content is the non-empty bridge the synthesizer returned;
\* get_embedding is called only after create_joke_bridge returned a bridge,
\* and on that bridge; bridge_embedding, when present, is the embedding of
\* the normalized bridge_content.
C18_EnrichShapes ==
    HelperCalled("enrich_joke") =>
        /\ EnrichResult.bridge_embedding # NULL => EnrichResult.bridge_content # NULL
        /\ EnrichResult.bridge_content # NULL =>
              /\ Val(call_in).reply.ok
              /\ Val(EnrichResult.bridge_content) # << >>
        /\ \A k \in CallsOf("get_embedding") \cup CallsOf("embeddings.create") :
              /\ \E j \in CallsOf("create_joke_bridge") : j < k
              /\ EnrichResult.bridge_content # NULL
        /\ \A k \in CallsOf("get_embedding") :
              calls[k].text = Val(EnrichResult.bridge_content)
        /\ EnrichResult.bridge_embedding # NULL =>
              \E k \in CallsOf("embeddings.create") :
                  /\ NormalizedFrom(Val(EnrichResult.bridge_content), calls[k].text)
                  /\ EnrichResult.bridge_embedding = Some(Embedding(calls[k].text))

\* the synthesizer returned a quoted bridge and the embedding service
\* answered: both fields, the second computed from the first
C18_Witness ==
    /\ HelperCalled("enrich_joke")
    /\ Val(call_in).text = <<"a", " ", "a">>
    /\ Val(call_in).reply.content = <<"\"", "a", "\"">>
    /\ EnrichResult.bridge_content = Some(<<"a">>)
    /\ EnrichResult.bridge_embedding = Some(Embedding(<<"a">>))


----------------------------------------------------------------------------
(* Operations on the table *)

\* the searchable texts submitted with an edit: empty, blank, new text
EditTexts == { << >>, <<" ">>, <<"a", "a">> }

\* the joke texts submitted for insertion
JokeInputs == { <<" ">>, <<" ", "a", "a">> }

\* replies to a bridge request: a failure, empty quotes, a quoted blank,
\* a quoted bridge
StoreReplies ==
    { [ok |-> FALSE, content |-> << >>],
      [ok |-> TRUE, content |-> <<"\"", "\"">>],
      [ok |-> TRUE, content |-> <<"\"", " ", "\"">>],
      [ok |-> TRUE, content |-> <<"'", "a", " ", "a", "'">>] }

\* what the table service does on a write
DbStates == {"ok", "raise"}

BatchSizes == {1, 2}

OpsDone == IF last = NULL THEN 0 ELSE Val(last).n

\* an id under which the table holds no row
MissingId == next_id

\* the ids a run can give out: the initial rows, and at most two more for
\* each operation
AllIds == 1..(Cardinality(RecordIds) + 2 * MaxOps + 1)

\* the ids requests are made for: the rows of the table, and one id
\* without a row
RequestIds == DOMAIN store \cup {MissingId}

\* table.insert(row): the table gives the row the next id
InsertRow(st, id, row) ==
    [i \in DOMAIN st \cup {id} |-> IF i = id THEN row ELSE st[i]]

\* the rows in which two table contents differ
Changed(st, st2) ==
    {i \in DOMAIN st \cup DOMAIN st2 :
        \/ i \notin DOMAIN st
        \/ i \notin DOMAIN st2
        \/ st[i] # st2[i]}

\* the record of a completed operation: its name, its inputs, the status
\* and result it answered with, and the rows it changed
Completed(op, input, status, result, written) ==
    [n |-> OpsDone + 1, op |-> op, input |-> input, status |-> status,
     result |-> result, written |-> written]

\* the row add_joke and upload_segments build, with the enrichment merged in
NewRow(video_id, original_text, searchable_text, embedding, enrichment) ==
    [video_id |-> video_id, original_text |-> original_text,
     searchable_text |-> searchable_text, meta_tags |-> << >>,
     embedding |-> embedding,
     bridge_content |-> enrichment.bridge_content,
     bridge_embedding |-> enrichment.bridge_embedding]

\* variant: the update never carries bridge_embedding
WriteBridgeContentOnly(st, id, bridge, e) ==
    IF id \notin DOMAIN st THEN st
    ELSE [st EXCEPT ![id] = [@ EXCEPT !.bridge_content = bridge]]

\* table.update({bridge_content[, bridge_embedding]}).eq("id", id)
WriteBridge(st, id, bridge, e) ==
    IF id \notin DOMAIN st THEN st
    ELSE [st EXCEPT ![id] =
            [@ EXCEPT !.bridge_content = bridge,
                      !.bridge_embedding = IF e.value # NULL THEN e.value ELSE @]]


\* an operation can begin: the run has room for one more
CanStart == OpsDone + (IF job = NULL THEN 0 ELSE 1) < MaxOps

\* an input the operation never reads is not varied
Unread(x, default) == x = default

Failing == [ok |-> FALSE, content |-> << >>]

NoEmbedding == [raised |-> FALSE, value |-> NULL, called |-> FALSE, sent |-> << >>]

(* Flask: add_joke *)

\* POST /api/add-joke
AddJoke(raw, service, reply, service2, db) ==
    /\ app = "flask"
    /\ CanStart
    /\ Strip(raw) = << >> => Unread(service, "ok")
    /\ (Strip(raw) = << >> \/ service = "raise") =>
           Unread(reply, Failing) /\ Unread(db, "ok")
    /\ (Strip(raw) = << >> \/ service = "raise"
           \/ ~Truthy(create_joke_bridge(raw, reply))
           \/ Blank(Val(create_joke_bridge(raw, reply)))) => Unread(service2, "ok")
    /\ LET joke_text == Strip(raw)
           embedding == get_embedding(joke_text, service)
           enrichment == enrich_joke(joke_text, reply, service2)
           row == NewRow("manual", << >>, joke_text, embedding.value, enrichment.value)
           input == [joke_text |-> raw, service |-> service, reply |-> reply,
                     service2 |-> service2, db |-> db]
           none == EnrichMap(NULL, NULL)
       IN  IF joke_text = << >>
           THEN /\ store' = store /\ next_id' = next_id /\ calls' = << >>
                /\ last' = Some(Completed("add_joke", input, 400,
                               [enriched |-> FALSE, enrich_raised |-> FALSE,
                                enrichment |-> none, ids |-> << >>], {}))
           ELSE IF embedding.raised \/ embedding.value = NULL
           THEN /\ store' = store /\ next_id' = next_id
                /\ calls' = EmbeddingCalls(joke_text, embedding)
                /\ last' = Some(Completed("add_joke", input, 500,
                               [enriched |-> FALSE, enrich_raised |-> FALSE,
                                enrichment |-> none, ids |-> << >>], {}))
           ELSE IF enrichment.raised \/ db = "raise"
           THEN /\ store' = store /\ next_id' = next_id
                /\ calls' = EmbeddingCalls(joke_text, embedding) \o enrichment.calls
                /\ last' = Some(Completed("add_joke", input, 500,
                               [enriched |-> TRUE, enrich_raised |-> enrichment.raised,
                                enrichment |-> enrichment.value, ids |-> << >>], {}))
           ELSE /\ store' = InsertRow(store, next_id, row)
                /\ next_id' = next_id + 1
                /\ calls' = EmbeddingCalls(joke_text, embedding) \o enrichment.calls
                /\ last' = Some(Completed("add_joke", input, 200,
                               [enriched |-> TRUE, enrich_raised |-> FALSE,
                                enrichment |-> enrichment.value, ids |-> <<next_id>>],
                               {next_id}))
    /\ UNCHANGED << app, gemini_client, call_in, call_out, job >>
    /\ UNCHANGED idleVars

(* Flask: update_segment *)

\* PUT /api/segments/<id>
UpdateSegment(segment_id, searchable, service, db) ==
    /\ app = "flask"
    /\ CanStart
    /\ segment_id \in RequestIds
    /\ Blank(searchable) => Unread(service, "ok")
    /\ (~Blank(searchable) /\ service = "raise") => Unread(db, "ok")
    /\ LET embedding == IF searchable # << >> THEN get_embedding(searchable, service)
                        ELSE NoEmbedding
           update_data(old) ==
               [old EXCEPT !.original_text = <<"a">>,
                           !.searchable_text = searchable,
                           !.meta_tags = << >>,
                           !.embedding = IF embedding.value # NULL
                                         THEN embedding.value ELSE @]
           st2 == IF segment_id \in DOMAIN store
                  THEN [store EXCEPT ![segment_id] = update_data(@)]
                  ELSE store
           input == [id |-> segment_id, searchable_text |-> searchable,
                     service |-> service, db |-> db]
           log == IF searchable # << >> THEN EmbeddingCalls(searchable, embedding)
                  ELSE << >>
       IN  /\ calls' = log
           /\ IF embedding.raised \/ db = "raise"
              THEN /\ store' = store
                   /\ last' = Some(Completed("update_segment", input, 500, << >>, {}))
              ELSE /\ store' = st2
                   /\ last' = Some(Completed("update_segment", input, 200, << >>,
                                             Changed(store, st2)))
    /\ UNCHANGED << app, gemini_client, call_in, call_out, next_id, job >>
    /\ UNCHANGED idleVars

(* Streamlit: DB Explorer, Edit / Save *)

\* supabase.table(...).update({"searchable_text": new_text}).eq("id", id)
StSave(id, new_text, db) ==
    /\ app = "streamlit"
    /\ CanStart
    /\ id \in DOMAIN store
    /\ LET st2 == [store EXCEPT ![id] = [@ EXCEPT !.searchable_text = new_text]]
           input == [id |-> id, searchable_text |-> new_text, db |-> db]
       IN  /\ calls' = << >>
           /\ IF db = "raise"
              THEN /\ store' = store
                   /\ last' = Some(Completed("save", input, 500, << >>, {}))
              ELSE /\ store' = st2
                   /\ last' = Some(Completed("save", input, 200, << >>,
                                             Changed(store, st2)))
    /\ UNCHANGED << app, gemini_client, call_in, call_out, next_id, job >>
    /\ UNCHANGED idleVars


(* Flask: refresh_bridge *)

\* variant: the bridge is generated from original_text
RefreshReadOriginal(segment_id) ==
    /\ app = "flask"
    /\ CanStart
    /\ job = NULL
    /\ segment_id \in RequestIds
    /\ calls' = << >>
    /\ IF segment_id \notin DOMAIN store
       THEN /\ job' = job
            /\ last' = Some(Completed("refresh_bridge", [id |-> segment_id], 404,
                                      [bridge |-> NULL, has_bridge_embedding |-> FALSE],
                                      {}))
       ELSE /\ job' = Some([kind |-> "refresh", id |-> segment_id,
                            joke_text |-> store[segment_id].original_text])
            /\ last' = last
    /\ UNCHANGED << app, gemini_client, store, call_in, call_out, next_id >>
    /\ UNCHANGED idleVars

\* select("id, searchable_text").eq("id", segment_id); 404 if there is none
RefreshRead(segment_id) ==
    /\ app = "flask"
    /\ CanStart
    /\ job = NULL
    /\ segment_id \in RequestIds
    /\ calls' = << >>
    /\ IF segment_id \notin DOMAIN store
       THEN /\ job' = job
            /\ last' = Some(Completed("refresh_bridge", [id |-> segment_id], 404,
                                      [bridge |-> NULL, has_bridge_embedding |-> FALSE],
                                      {}))
       ELSE /\ job' = Some([kind |-> "refresh", id |-> segment_id,
                            joke_text |-> store[segment_id].searchable_text])
            /\ last' = last
    /\ UNCHANGED << app, gemini_client, store, call_in, call_out, next_id >>
    /\ UNCHANGED idleVars

\* variant: the bridge is written without the "if not bridge_content" check
RefreshWriteUnchecked(reply, service, db) ==
    /\ job # NULL
    /\ Val(job).kind = "refresh"
    /\ ~Truthy(create_joke_bridge(Val(job).joke_text, reply)) =>
           Unread(service, "ok") /\ Unread(db, "ok")
    /\ (Truthy(create_joke_bridge(Val(job).joke_text, reply))
           /\ Blank(Val(create_joke_bridge(Val(job).joke_text, reply)))) =>
           Unread(service, "ok")
    /\ (service = "raise"
           /\ ~Blank(Val(create_joke_bridge(Val(job).joke_text, reply)))) =>
           Unread(db, "ok")
    /\ LET id == Val(job).id
           joke_text == Val(job).joke_text
           bridge_content == create_joke_bridge(joke_text, reply)
           bridge_embedding == get_embedding(Val(bridge_content), service)
           st2 == WriteBridge(store, id, bridge_content, bridge_embedding)
           input == [id |-> id, joke_text |-> joke_text, reply |-> reply,
                     service |-> service, db |-> db]
           synth == <<TextCall("create_joke_bridge", joke_text, FALSE)>>
       IN  IF bridge_content = NULL
           THEN /\ store' = store
                /\ calls' = synth
                /\ last' = Some(Completed("refresh_bridge", input, 500,
                               [bridge |-> bridge_content, has_bridge_embedding |-> FALSE],
                               {}))
           ELSE IF bridge_embedding.raised \/ db = "raise"
           THEN /\ store' = store
                /\ calls' = synth \o EmbeddingCalls(Val(bridge_content), bridge_embedding)
                /\ last' = Some(Completed("refresh_bridge", input, 500,
                               [bridge |-> bridge_content, has_bridge_embedding |-> FALSE],
                               {}))
           ELSE /\ store' = st2
                /\ calls' = synth \o EmbeddingCalls(Val(bridge_content), bridge_embedding)
                /\ last' = Some(Completed("refresh_bridge", input, 200,
                               [bridge |-> bridge_content,
                                has_bridge_embedding |-> bridge_embedding.value # NULL],
                               Changed(store, st2)))
    /\ job' = NULL
    /\ UNCHANGED << app, gemini_client, call_in, call_out, next_id >>
    /\ UNCHANGED idleVars

\* create_joke_bridge, get_embedding and the update of refresh_bridge
RefreshWrite(reply, service, db) ==
    /\ job # NULL
    /\ Val(job).kind = "refresh"
    /\ ~Truthy(create_joke_bridge(Val(job).joke_text, reply)) =>
           Unread(service, "ok") /\ Unread(db, "ok")
    /\ (Truthy(create_joke_bridge(Val(job).joke_text, reply))
           /\ Blank(Val(create_joke_bridge(Val(job).joke_text, reply)))) =>
           Unread(service, "ok")
    /\ (service = "raise"
           /\ ~Blank(Val(create_joke_bridge(Val(job).joke_text, reply)))) =>
           Unread(db, "ok")
    /\ LET id == Val(job).id
           joke_text == Val(job).joke_text
           bridge_content == create_joke_bridge(joke_text, reply)
           bridge_embedding == get_embedding(Val(bridge_content), service)
           st2 == WriteBridge(store, id, bridge_content, bridge_embedding)
           input == [id |-> id, joke_text |-> joke_text, reply |-> reply,
                     service |-> service, db |-> db]
           synth == <<TextCall("create_joke_bridge", joke_text, FALSE)>>
       IN  IF ~Truthy(bridge_content)
           THEN /\ store' = store
                /\ calls' = synth
                /\ last' = Some(Completed("refresh_bridge", input, 500,
                               [bridge |-> bridge_content, has_bridge_embedding |-> FALSE],
                               {}))
           ELSE IF bridge_embedding.raised \/ db = "raise"
           THEN /\ store' = store
                /\ calls' = synth \o EmbeddingCalls(Val(bridge_content), bridge_embedding)
                /\ last' = Some(Completed("refresh_bridge", input, 500,
                               [bridge |-> bridge_content, has_bridge_embedding |-> FALSE],
                               {}))
           ELSE /\ store' = st2
                /\ calls' = synth \o EmbeddingCalls(Val(bridge_content), bridge_embedding)
                /\ last' = Some(Completed("refresh_bridge", input, 200,
                               [bridge |-> bridge_content,
                                has_bridge_embedding |-> bridge_embedding.value # NULL],
                               Changed(store, st2)))
    /\ job' = NULL
    /\ UNCHANGED << app, gemini_client, call_in, call_out, next_id >>
    /\ UNCHANGED idleVars

(* Flask: fill_all_missing *)

\* the members of a set of ids in ascending order
RECURSIVE Ascending(_)
Ascending(S) ==
    IF S = {} THEN << >>
    ELSE LET least == CHOOSE x \in S : \A y \in S : x <= y
         IN  <<least>> \o Ascending(S \ {least})

\* variant: the select has no limit
MissingBridgesUnlimited(st, batch_size) ==
    LET ids == Ascending({i \in DOMAIN st : st[i].bridge_content = NULL})
    IN  [k \in 1..Len(ids) |->
            [id |-> ids[k], searchable_text |-> st[ids[k]].searchable_text]]

\* select(...).is_("bridge_content", "null").order("id").limit(batch_size)
MissingBridges(st, batch_size) ==
    LET ids == Ascending({i \in DOMAIN st : st[i].bridge_content = NULL})
    IN  [k \in 1..Min(batch_size, Len(ids)) |->
            [id |-> ids[k], searchable_text |-> st[ids[k]].searchable_text]]

\* the select of fill_all_missing, and its answer when nothing is missing
FillSelect(batch_size) ==
    /\ app = "flask"
    /\ CanStart
    /\ job = NULL
    /\ calls' = << >>
    /\ LET all_jokes == MissingBridges(store, batch_size)
       IN  IF all_jokes = << >>
           THEN /\ job' = job
                /\ last' = Some(Completed("fill_all_missing",
                               [selected |-> << >>, replies |-> << >>], 200,
                               [processed |-> << >>, errors |-> << >>, remaining |-> 0],
                               {}))
           ELSE /\ job' = Some([kind |-> "fill", rows |-> all_jokes, k |-> 1,
                                replies |-> << >>,
                                processed |-> << >>, errors |-> << >>,
                                written |-> {}])
                /\ last' = last
    /\ UNCHANGED << app, gemini_client, store, call_in, call_out, next_id >>
    /\ UNCHANGED idleVars

\* one turn of "for joke in all_jokes.data"
FillStep(reply, service, db) ==
    /\ job # NULL
    /\ Val(job).kind = "fill"
    /\ Val(job).k <= Len(Val(job).rows)
    /\ Val(job).rows[Val(job).k].searchable_text = << >> => Unread(reply, Failing)
    /\ ~Truthy(create_joke_bridge(<< >>, reply)) =>
           Unread(service, "ok") /\ Unread(db, "ok")
    /\ (service = "raise" /\ ~Blank(Val(create_joke_bridge(<< >>, reply)))) =>
           Unread(db, "ok")
    /\ LET joke == Val(job).rows[Val(job).k]
           joke_text == joke.searchable_text
           bridge_content == create_joke_bridge(joke_text, reply)
           bridge_embedding == get_embedding(Val(bridge_content), service)
           st2 == WriteBridge(store, joke.id, bridge_content, bridge_embedding)
           synth == <<TextCall("create_joke_bridge", joke_text, FALSE)>>
           failed(msg, log) ==
               /\ store' = store
               /\ calls' = calls \o log
               /\ job' = Some([Val(job) EXCEPT
                               !.k = @ + 1,
                               !.replies = Append(@, reply),
                               !.errors = Append(@, [id |-> joke.id, error |-> msg])])
       IN  IF joke_text = << >> THEN failed("No searchable text", << >>)
           ELSE IF ~Truthy(bridge_content) THEN failed("Bridge generation failed", synth)
           ELSE IF bridge_embedding.raised \/ db = "raise"
           THEN failed("exception",
                       synth \o EmbeddingCalls(Val(bridge_content), bridge_embedding))
           ELSE /\ store' = st2
                /\ calls' = calls \o synth
                               \o EmbeddingCalls(Val(bridge_content), bridge_embedding)
                /\ job' = Some([Val(job) EXCEPT
                                !.k = @ + 1,
                                !.replies = Append(@, reply),
                                !.processed = Append(@, joke.id),
                                !.written = @ \cup Changed(store, st2)])
    /\ UNCHANGED << app, gemini_client, call_in, call_out, next_id, last >>
    /\ UNCHANGED idleVars

\* the count of the rows still without a bridge, and the answer
FillFinish ==
    /\ job # NULL
    /\ Val(job).kind = "fill"
    /\ Val(job).k > Len(Val(job).rows)
    /\ last' = Some(Completed("fill_all_missing",
                   [selected |-> Val(job).rows, replies |-> Val(job).replies], 200,
                   [processed |-> Val(job).processed, errors |-> Val(job).errors,
                    remaining |->
                        Cardinality({i \in DOMAIN store : store[i].bridge_content = NULL})],
                   Val(job).written))
    /\ job' = NULL
    /\ UNCHANGED << app, gemini_client, store, call_in, call_out, next_id, calls >>
    /\ UNCHANGED idleVars


(* Flask: upload_segments *)

Ok == [ok |-> TRUE, content |-> <<"'", "a", " ", "a", "'">>]

\* a reviewed segment, with what the services would do for it: no text,
\* blank text, a text whose embedding fails, and a text with each outcome
\* of its enrichment
SegmentInputs ==
    { [searchable_content |-> << >>, service |-> "ok", reply |-> Failing,
       service2 |-> "ok"],
      [searchable_content |-> <<" ">>, service |-> "ok", reply |-> Failing,
       service2 |-> "ok"],
      [searchable_content |-> <<"a", "a">>, service |-> "raise", reply |-> Failing,
       service2 |-> "ok"] }
    \cup
    { [searchable_content |-> <<"a", "a">>, service |-> "ok", reply |-> Failing,
       service2 |-> "ok"] }
    \cup
    { [searchable_content |-> <<"a", "a">>, service |-> "ok", reply |-> Ok,
       service2 |-> sv] : sv \in EmbeddingServices }

\* a segment whose embedding and enrichment both succeed
GoodSegment ==
    [searchable_content |-> <<"a", "a">>, service |-> "ok", reply |-> Ok,
     service2 |-> "ok"]

\* the requests of upload_segments: no segment, one segment, or two of
\* which one is a good segment
UploadInputs ==
    { << >> } \cup {<<a>> : a \in SegmentInputs}
              \cup {<<a, GoodSegment>> : a \in SegmentInputs}
              \cup {<<GoodSegment, b>> : b \in SegmentInputs}

\* "for seg in segments": the rows to insert, the calls made, the
\* enrichments computed, and whether a call raised out of the loop
RECURSIVE UploadLoop(_, _, _)
UploadLoop(segments, k, acc) ==
    IF k > Len(segments) \/ acc.raised THEN acc
    ELSE LET seg == segments[k]
             searchable == seg.searchable_content
             embedding == get_embedding(searchable, seg.service)
             enrichment == enrich_joke(searchable, seg.reply, seg.service2)
             log == EmbeddingCalls(searchable, embedding)
         IN  IF searchable = << >> THEN UploadLoop(segments, k + 1, acc)
             ELSE IF embedding.raised
             THEN [acc EXCEPT !.raised = TRUE, !.calls = @ \o log]
             ELSE IF embedding.value = NULL
             THEN UploadLoop(segments, k + 1, [acc EXCEPT !.calls = @ \o log])
             ELSE UploadLoop(segments, k + 1,
                    [raised |-> enrichment.raised,
                     rows |-> IF enrichment.raised THEN acc.rows
                              ELSE Append(acc.rows,
                                     NewRow("vid", <<"a">>, searchable, embedding.value,
                                            enrichment.value)),
                     from |-> IF enrichment.raised THEN acc.from
                              ELSE Append(acc.from, k),
                     enrich_raised |-> acc.enrich_raised \/ enrichment.raised,
                     calls |-> acc.calls \o log \o enrichment.calls])

\* what the loop of upload_segments makes of each upload
UploadOutcomes ==
    [segments \in UploadInputs |->
        UploadLoop(segments, 1,
                   [raised |-> FALSE, rows |-> << >>, from |-> << >>,
                    enrich_raised |-> FALSE, calls |-> << >>])]

\* table.insert(rows): the rows get consecutive ids, in order
InsertRows(st, first, rows) ==
    [i \in DOMAIN st \cup first..(first + Len(rows) - 1) |->
        IF i \in DOMAIN st THEN st[i] ELSE rows[i - first + 1]]

\* variant: each row is inserted as soon as it is built
UploadSegmentsInsertingEach(segments, db) ==
    /\ app = "flask"
    /\ CanStart
    /\ (\A k \in 1..Len(segments) : segments[k].service = "raise"
                                       \/ Blank(segments[k].searchable_content)) =>
           Unread(db, "ok")
    /\ LET loop == UploadOutcomes[segments]
           input == [segments |-> segments, db |-> db]
           result(ids) == [enrich_raised |-> loop.enrich_raised, from |-> loop.from,
                           ids |-> ids, segments_added |-> Len(ids)]
           ids == [k \in 1..Len(loop.rows) |-> next_id + k - 1]
       IN  IF segments = << >>
           THEN /\ store' = store /\ next_id' = next_id /\ calls' = << >>
                /\ last' = Some(Completed("upload_segments", input, 400,
                                          result(<< >>), {}))
           ELSE IF loop.rows # << >> /\ db = "raise"
           THEN /\ store' = store /\ next_id' = next_id /\ calls' = loop.calls
                /\ last' = Some(Completed("upload_segments", input, 500,
                                          result(<< >>), {}))
           ELSE IF loop.raised
           THEN /\ store' = InsertRows(store, next_id, loop.rows)
                /\ next_id' = next_id + Len(loop.rows)
                /\ calls' = loop.calls
                /\ last' = Some(Completed("upload_segments", input, 500,
                                          result(<< >>), {}))
           ELSE /\ store' = InsertRows(store, next_id, loop.rows)
                /\ next_id' = next_id + Len(loop.rows)
                /\ calls' = loop.calls
                /\ last' = Some(Completed("upload_segments", input, 200, result(ids),
                                          {ids[k] : k \in 1..Len(ids)}))
    /\ UNCHANGED << app, gemini_client, call_in, call_out, job >>
    /\ UNCHANGED idleVars

\* POST /api/upload-segments
UploadSegments(segments, db) ==
    /\ app = "flask"
    /\ CanStart
    /\ (\A k \in 1..Len(segments) : segments[k].service = "raise"
                                       \/ Blank(segments[k].searchable_content)) =>
           Unread(db, "ok")
    /\ LET loop == UploadOutcomes[segments]
           input == [segments |-> segments, db |-> db]
           result(ids) == [enrich_raised |-> loop.enrich_raised, from |-> loop.from,
                           ids |-> ids, segments_added |-> Len(ids)]
           ids == [k \in 1..Len(loop.rows) |-> next_id + k - 1]
       IN  IF segments = << >>
           THEN /\ store' = store /\ next_id' = next_id /\ calls' = << >>
                /\ last' = Some(Completed("upload_segments", input, 400,
                                          result(<< >>), {}))
           ELSE IF loop.raised \/ (loop.rows # << >> /\ db = "raise")
           THEN /\ store' = store /\ next_id' = next_id /\ calls' = loop.calls
                /\ last' = Some(Completed("upload_segments", input, 500,
                                          result(<< >>), {}))
           ELSE /\ store' = InsertRows(store, next_id, loop.rows)
                /\ next_id' = next_id + Len(loop.rows)
                /\ calls' = loop.calls
                /\ last' = Some(Completed("upload_segments", input, 200, result(ids),
                                          {ids[k] : k \in 1..Len(ids)}))
    /\ UNCHANGED << app, gemini_client, call_in, call_out, job >>
    /\ UNCHANGED idleVars

(* Streamlit: Manual Entry *)

\* if submitted and joke_text: enrich, embed, insert
StManualAdd(joke_text, reply, service2, service, db) ==
    /\ app = "streamlit"
    /\ CanStart
    /\ joke_text # << >>
    /\ (~Truthy(create_joke_bridge(joke_text, reply))
           \/ Blank(Val(create_joke_bridge(joke_text, reply)))) => Unread(service2, "ok")
    /\ Blank(joke_text) => Unread(service, "ok")
    /\ LET enrichment == st_enrich_joke(joke_text, reply, service2)
           embedding == st_get_embedding(joke_text, service)
           row == NewRow("manual", << >>, joke_text, embedding.value, enrichment.value)
           input == [joke_text |-> joke_text, service |-> service, reply |-> reply,
                     service2 |-> service2, db |-> db]
           log == enrichment.calls \o EmbeddingCalls(joke_text, embedding)
       IN  IF enrichment.raised
           THEN /\ store' = store /\ next_id' = next_id
                /\ calls' = enrichment.calls
                /\ last' = Some(Completed("manual_add", input, 500,
                               [enriched |-> TRUE, enrich_raised |-> TRUE,
                                enrichment |-> enrichment.value, ids |-> << >>], {}))
           ELSE IF embedding.raised \/ db = "raise"
           THEN /\ store' = store /\ next_id' = next_id
                /\ calls' = log
                /\ last' = Some(Completed("manual_add", input, 500,
                               [enriched |-> TRUE, enrich_raised |-> FALSE,
                                enrichment |-> enrichment.value, ids |-> << >>], {}))
           ELSE /\ store' = InsertRow(store, next_id, row)
                /\ next_id' = next_id + 1
                /\ calls' = log
                /\ last' = Some(Completed("manual_add", input, 200,
                               [enriched |-> TRUE, enrich_raised |-> FALSE,
                                enrichment |-> enrichment.value, ids |-> <<next_id>>],
                               {next_id}))
    /\ UNCHANGED << app, gemini_client, call_in, call_out, job >>
    /\ UNCHANGED idleVars

(* Flask: get_all_segments *)

\* GET /api/segments: every row with has_bridge_embedding added (the
\* order by created_at is left out)
GetAllSegments(db) ==
    /\ app = "flask"
    /\ CanStart
    /\ calls' = << >>
    /\ LET embed_map == [id \in DOMAIN store |-> store[id].bridge_embedding # NULL]
           segments == [id \in DOMAIN store |->
                           [bridge_content |-> store[id].bridge_content,
                            has_bridge_embedding |-> embed_map[id]]]
       IN  IF db = "raise"
           THEN last' = Some(Completed("get_all_segments", [db |-> db], 500, << >>, {}))
           ELSE last' = Some(Completed("get_all_segments", [db |-> db], 200,
                                       segments, {}))
    /\ UNCHANGED << app, gemini_client, store, call_in, call_out, next_id, job >>
    /\ UNCHANGED idleVars

(* Streamlit: DB Explorer, Stats *)

\* the three metrics at the top of the tab: Total Jokes, Missing Bridges,
\* Indexed
StStats(db) ==
    /\ app = "streamlit"
    /\ CanStart
    /\ calls' = << >>
    /\ LET total == Cardinality(DOMAIN store)
           missing == Cardinality({id \in DOMAIN store : store[id].bridge_content = NULL})
       IN  IF db = "raise"
           THEN last' = Some(Completed("stats", [db |-> db], 500, << >>, {}))
           ELSE last' = Some(Completed("stats", [db |-> db], 200,
                                       [total |-> total, missing |-> missing,
                                        indexed |-> total - missing], {}))
    /\ UNCHANGED << app, gemini_client, store, call_in, call_out, next_id, job >>
    /\ UNCHANGED idleVars

(* Streamlit: DB Explorer, Generate Bridge *)

\* the button shown for a row without bridge: enrich_joke on the row's
\* searchable_text, and update(enrich) when the dict is not empty
StGenerateBridge(id, reply, service, db) ==
    /\ app = "streamlit"
    /\ CanStart
    /\ id \in DOMAIN store
    /\ ~Truthy(store[id].bridge_content)
    /\ (~Truthy(create_joke_bridge(<< >>, reply))
           \/ Blank(Val(create_joke_bridge(<< >>, reply)))) => Unread(service, "ok")
    /\ ~Truthy(create_joke_bridge(<< >>, reply)) => Unread(db, "ok")
    /\ LET joke_text == store[id].searchable_text
           enrich == st_enrich_joke(joke_text, reply, service)
           e == [value |-> enrich.value.bridge_embedding]
           st2 == WriteBridge(store, id, enrich.value.bridge_content, e)
           input == [id |-> id, joke_text |-> joke_text, reply |-> reply,
                     service |-> service, db |-> db]
       IN  /\ calls' = enrich.calls
           /\ IF enrich.value = EnrichMap(NULL, NULL)
              THEN /\ store' = store
                   /\ last' = Some(Completed("generate_bridge", input, 200,
                                             enrich.value, {}))
              ELSE IF db = "raise"
              THEN /\ store' = store
                   /\ last' = Some(Completed("generate_bridge", input, 500,
                                             enrich.value, {}))
              ELSE /\ store' = st2
                   /\ last' = Some(Completed("generate_bridge", input, 200,
                                             enrich.value, Changed(store, st2)))
    /\ UNCHANGED << app, gemini_client, call_in, call_out, next_id, job >>
    /\ UNCHANGED idleVars

(* The table and the operations on it *)

InitStore ==
    /\ app \in {"flask", "streamlit"}
    /\ gemini_client = TRUE
    /\ NoCampaign
    /\ call_in = NULL
    /\ call_out = NULL
    /\ next_id = 4
    /\ job = NULL
    /\ last = NULL
    /\ session_state = NoSession

NextStore ==
    \/ \E raw \in JokeInputs, service \in EmbeddingServices, reply \in StoreReplies,
          service2 \in EmbeddingServices, db \in DbStates :
            AddJoke(raw, service, reply, service2, db)
    \/ \E segments \in UploadInputs, db \in DbStates : UploadSegments(segments, db)
    \/ \E id \in AllIds, searchable \in EditTexts,
          service \in EmbeddingServices, db \in DbStates :
            UpdateSegment(id, searchable, service, db)
    \/ \E id \in AllIds : RefreshRead(id)
    \/ \E reply \in StoreReplies, service \in EmbeddingServices, db \in DbStates :
            RefreshWrite(reply, service, db)
    \/ \E batch_size \in BatchSizes : FillSelect(batch_size)
    \/ \E reply \in StoreReplies, service \in EmbeddingServices, db \in DbStates :
            FillStep(reply, service, db)
    \/ FillFinish
    \/ \E id \in AllIds, new_text \in EditTexts, db \in DbStates :
            StSave(id, new_text, db)
    \/ \E joke_text \in JokeInputs, reply \in StoreReplies,
          service2 \in EmbeddingServices, service \in EmbeddingServices,
          db \in DbStates :
            StManualAdd(joke_text, reply, service2, service, db)
    \/ \E id \in AllIds, reply \in StoreReplies, service \in EmbeddingServices,
          db \in DbStates :
            StGenerateBridge(id, reply, service, db)
    \/ \E db \in DbStates : GetAllSegments(db)
    \/ \E db \in DbStates : StStats(db)

SpecStore == InitStore /\ [][NextStore]_vars


----------------------------------------------------------------------------
(* The Streamlit session: deleting rows and pushing reviewed jokes *)

\* a joke of the review list as the extraction leaves it: selected
Extracted(text) == [searchable_content |-> text, selected |-> TRUE]

\* the review lists an extraction leaves: jokes with different texts
ReviewLists ==
    { <<Extracted(<<"a">>)>>,
      <<Extracted(<<"a">>), Extracted(<<"a", "a">>)>> }

\* the positions k..n that are in the set keep, in order
RECURSIVE Positions(_, _, _)
Positions(k, n, keep) ==
    IF k > n THEN << >>
    ELSE (IF k \in keep THEN <<k>> ELSE << >>) \o Positions(k + 1, n, keep)

\* variant: the confirmation of any session counts
StDeleteClickAnySession(s, id, db) ==
    /\ app = "streamlit"
    /\ CanStart
    /\ id \in DOMAIN store
    /\ calls' = << >>
    /\ LET input == [session |-> s, id |-> id, db |-> db]
       IN  IF \E t \in Sessions : id \in session_state[t].confirm
           THEN /\ session_state' = session_state
                /\ store' = [i \in DOMAIN store \ {id} |-> store[i]]
                /\ last' = Some(Completed("delete_click", input, 200, << >>, {id}))
           ELSE /\ session_state' =
                      [session_state EXCEPT ![s].confirm = @ \cup {id}]
                /\ store' = store
                /\ last' = Some(Completed("delete_click", input, 200, << >>, {}))
    /\ UNCHANGED << app, gemini_client, call_in, call_out, next_id, job >>
    /\ UNCHANGED campaignVars

\* the DB Explorer delete button of row id, clicked in session s
StDeleteClick(s, id, db) ==
    /\ app = "streamlit"
    /\ CanStart
    /\ id \in DOMAIN store
    /\ id \notin session_state[s].confirm => Unread(db, "ok")
    /\ calls' = << >>
    /\ LET input == [session |-> s, id |-> id, db |-> db]
       IN  IF id \in session_state[s].confirm
           THEN /\ session_state' = session_state
                /\ IF db = "raise"
                   THEN /\ store' = store
                        /\ last' = Some(Completed("delete_click", input, 500,
                                                  << >>, {}))
                   ELSE /\ store' = [i \in DOMAIN store \ {id} |-> store[i]]
                        /\ last' = Some(Completed("delete_click", input, 200,
                                                  << >>, {id}))
           ELSE /\ session_state' =
                      [session_state EXCEPT ![s].confirm = @ \cup {id}]
                /\ store' = store
                /\ last' = Some(Completed("delete_click", input, 200, << >>, {}))
    /\ UNCHANGED << app, gemini_client, call_in, call_out, next_id, job >>
    /\ UNCHANGED campaignVars

\* the text area of joke i of the review list of session s
StEditJoke(s, i, new_text) ==
    /\ app = "streamlit"
    /\ CanStart
    /\ i \in 1..Len(session_state[s].extracted_jokes)
    /\ session_state[s].extracted_jokes[i].searchable_content # new_text
    /\ calls' = << >>
    /\ session_state' =
          [session_state EXCEPT ![s].extracted_jokes[i].searchable_content = new_text]
    /\ last' = Some(Completed("edit_joke", [session |-> s, i |-> i, text |-> new_text],
                              200, << >>, {}))
    /\ UNCHANGED << app, gemini_client, store, call_in, call_out, next_id, job >>
    /\ UNCHANGED campaignVars

\* the checkbox of joke i of the review list of session s
StSelect(s, i) ==
    /\ app = "streamlit"
    /\ CanStart
    /\ i \in 1..Len(session_state[s].extracted_jokes)
    /\ calls' = << >>
    /\ session_state' =
          [session_state EXCEPT ![s].extracted_jokes[i].selected = ~@]
    /\ last' = Some(Completed("select_joke", [session |-> s, i |-> i],
                              200, << >>, {}))
    /\ UNCHANGED << app, gemini_client, store, call_in, call_out, next_id, job >>
    /\ UNCHANGED campaignVars

\* the row Push All Selected builds for a joke with a text
PushRow(text, reply, service) ==
    NewRow("vid", << >>, text, st_get_embedding(text, service).value,
           st_enrich_joke(text, reply, service).value)

\* the Push All Selected button of session s
StPushAll(s, reply, service, db) ==
    /\ app = "streamlit"
    /\ CanStart
    /\ session_state[s].extracted_jokes # << >>
    /\ LET jokes == session_state[s].extracted_jokes
           n == Len(jokes)
           selected == Positions(1, n, {k \in 1..n : jokes[k].selected})
           from == Positions(1, n, {k \in 1..n : /\ jokes[k].selected
                                                  /\ jokes[k].searchable_content # << >>})
           rows == [k \in 1..Len(from) |->
                       PushRow(jokes[from[k]].searchable_content, reply, service)]
           rest == Positions(1, n, {k \in 1..n : ~jokes[k].selected})
           ids == [k \in 1..Len(rows) |-> next_id + k - 1]
           input == [session |-> s, jokes |-> jokes, reply |-> reply,
                     service |-> service, db |-> db]
       IN  /\ from = << >> =>
                 Unread(reply, Failing) /\ Unread(service, "ok") /\ Unread(db, "ok")
           /\ calls' = << >>
           /\ IF selected = << >> \/ rows = << >>
              THEN /\ store' = store /\ next_id' = next_id
                   /\ session_state' = session_state
                   /\ last' = Some(Completed("push_all", input, 200,
                                             [from |-> << >>, ids |-> << >>], {}))
              ELSE IF db = "raise"
              THEN /\ store' = store /\ next_id' = next_id
                   /\ session_state' = session_state
                   /\ last' = Some(Completed("push_all", input, 500,
                                             [from |-> << >>, ids |-> << >>], {}))
              ELSE /\ store' = InsertRows(store, next_id, rows)
                   /\ next_id' = next_id + Len(rows)
                   /\ session_state' =
                         [session_state EXCEPT ![s].extracted_jokes =
                             [k \in 1..Len(rest) |-> jokes[rest[k]]]]
                   /\ last' = Some(Completed("push_all", input, 200,
                                             [from |-> from, ids |-> ids],
                                             {ids[k] : k \in 1..Len(ids)}))
    /\ UNCHANGED << app, gemini_client, call_in, call_out, job >>
    /\ UNCHANGED campaignVars

\* a session has extracted jokes from a video; the other has not
InitSession ==
    /\ app = "streamlit"
    /\ gemini_client = TRUE
    /\ NoCampaign
    /\ call_in = NULL
    /\ call_out = NULL
    /\ next_id = 4
    /\ job = NULL
    /\ last = NULL
    /\ session_state \in
          {[NoSession EXCEPT !["s1"].extracted_jokes = q] : q \in ReviewLists}

\* the positions of the review cards
ReviewPositions == 1..2

NextSession ==
    \/ \E s \in Sessions, id \in AllIds, db \in DbStates : StDeleteClick(s, id, db)
    \/ \E s \in Sessions, i \in ReviewPositions, new_text \in EditTexts :
            StEditJoke(s, i, new_text)
    \/ \E s \in Sessions, i \in ReviewPositions : StSelect(s, i)
    \/ \E s \in Sessions, reply \in {Failing, Ok}, service \in EmbeddingServices,
          db \in DbStates :
            StPushAll(s, reply, service, db)

SpecSession == InitSession /\ [][NextSession]_vars


----------------------------------------------------------------------------
(* fill_all_missing called again and again *)

\* the texts of the rows: none, or a joke
BackfillTexts == { << >>, <<"a">> }

\* a row that was never enriched, or one enriched at insertion; a row
\* without text was emptied by an edit, which left its embedding in place
BackfillRow(text, enriched) ==
    [video_id |-> "vid", original_text |-> <<"a">>, searchable_text |-> text,
     meta_tags |-> << >>, embedding |-> Some(Embedding(<<"a">>)),
     bridge_content |-> IF enriched THEN Some(<<"a", "a">>) ELSE NULL,
     bridge_embedding |-> IF enriched THEN Some(Embedding(<<"a", "a">>)) ELSE NULL]

\* the tables the backfill is run on
BackfillStores ==
    [RecordIds -> {BackfillRow(t, b) : t \in BackfillTexts, b \in BOOLEAN}]

\* the request: POST /api/fill-all-missing with a batch_size
BackfillInputs == {[fn |-> "fill_all_missing", batch_size |-> b] : b \in BatchSizes}

\* the client sends the request with the batch_size it always sends
BackfillCall ==
    /\ call_in # NULL
    /\ Val(call_in).fn = "fill_all_missing"
    /\ \E batch_size \in BatchSizes :
          /\ batch_size = Val(call_in).batch_size
          /\ FillSelect(batch_size)

\* the client has the answer and prepares the next request
BackfillAgain ==
    /\ call_in # NULL
    /\ Val(call_in).fn = "fill_all_missing"
    /\ job = NULL
    /\ last # NULL
    /\ last' = NULL
    /\ calls' = << >>
    /\ UNCHANGED << app, gemini_client, store, call_in, call_out, next_id, job >>
    /\ UNCHANGED idleVars

InitBackfill ==
    /\ app = "flask"
    /\ gemini_client = TRUE
    /\ store \in BackfillStores
    /\ IdleCampaign
    /\ call_in \in {Some(c) : c \in BackfillInputs}
    /\ call_out = NULL
    /\ next_id = 4
    /\ job = NULL
    /\ last = NULL
    /\ session_state = NoSession

\* the services may fail on any row
NextBackfill ==
    \/ BackfillCall
    \/ \E reply \in StoreReplies, service \in EmbeddingServices, db \in DbStates :
            FillStep(reply, service, db)
    \/ FillFinish
    \/ BackfillAgain

SpecBackfill == InitBackfill /\ [][NextBackfill]_vars

\* the synthesizer gives a bridge for every text there is
SynthesizerReply ==
    IF job # NULL /\ Val(job).kind = "fill" /\ Val(job).k <= Len(Val(job).rows)
          /\ Val(job).rows[Val(job).k].searchable_text # << >>
    THEN Ok ELSE Failing

\* the services work: the only rows that fail are those without text
NextBackfillLive ==
    \/ BackfillCall
    \/ FillStep(SynthesizerReply, "ok", "ok")
    \/ FillFinish
    \/ BackfillAgain

\* the client keeps calling and every call runs to its end
SpecBackfillLive ==
    InitBackfill /\ [][NextBackfillLive]_vars /\ WF_vars(NextBackfillLive)


----------------------------------------------------------------------------
(* Properties of the operations on the table *)

\* the last completed operation is one of ops
LastIs(ops) == last # NULL /\ Val(last).op \in ops

\* the synthesizer gave no bridge: the service failed, or nothing is left
\* of its reply
NoBridge(reply) == ~Truthy(create_joke_bridge(<< >>, reply))

\* no bridge writer that began after the last completed operation is at
\* work on row id
NotInWork(id) ==
    \/ job = NULL
    \/ Val(job).kind = "refresh" /\ Val(job).id # id
    \/ Val(job).kind = "fill"
          /\ \A k \in 1..Len(Val(job).rows) : Val(job).rows[k].id # id

\* the rows an insert created hold no bridge
NoBridgeStored(ids) ==
    \A k \in 1..Len(ids) :
        NotInWork(ids[k]) =>
            /\ store[ids[k]].bridge_content = NULL
            /\ store[ids[k]].bridge_embedding = NULL

\* C17: when create_joke_bridge yields no bridge (the service failed, or
\* its reply is empty once stripped), no caller writes one: the map of
\* enrich_joke has no bridge_content and the row add_joke, upload_segments
\* or the Streamlit manual entry inserts has no bridge; refresh_bridge
\* answers with an error and changes no row; fill_all_missing records the
\* error "Bridge generation failed" for that id, does not count it as
\* processed and does not change its row.
C17_NoBridgeWrittenOnFailure ==
    /\ (LastIs({"add_joke", "manual_add"}) /\ Val(last).result.enriched
          /\ NoBridge(Val(last).input.reply)) =>
           /\ Val(last).result.enrichment = EnrichMap(NULL, NULL)
           /\ NoBridgeStored(Val(last).result.ids)
    /\ (LastIs({"upload_segments"}) /\ Val(last).status = 200) =>
           \A j \in 1..Len(Val(last).result.from) :
               NoBridge(Val(last).input.segments[Val(last).result.from[j]].reply) =>
                   NoBridgeStored(<<Val(last).result.ids[j]>>)
    /\ (LastIs({"refresh_bridge"}) /\ Val(last).status # 404
          /\ NoBridge(Val(last).input.reply)) =>
           /\ Val(last).status = 500
           /\ Val(last).written = {}
    /\ LastIs({"fill_all_missing"}) =>
           \A k \in 1..Len(Val(last).input.selected) :
               (/\ Val(last).input.selected[k].searchable_text # << >>
                /\ NoBridge(Val(last).input.replies[k])) =>
                   /\ \E e \in 1..Len(Val(last).result.errors) :
                         Val(last).result.errors[e] =
                             [id |-> Val(last).input.selected[k].id,
                              error |-> "Bridge generation failed"]
                   /\ \A q \in 1..Len(Val(last).result.processed) :
                         Val(last).result.processed[q] # Val(last).input.selected[k].id
                   /\ Val(last).input.selected[k].id \notin Val(last).written

\* a refresh of the enriched row whose synthesizer replied with empty
\* quotes: an error, and the row keeps its bridge and bridge embedding
C17_Witness ==
    /\ LastIs({"refresh_bridge"})
    /\ Val(last).input.id = 1
    /\ Val(last).input.reply = [ok |-> TRUE, content |-> <<"\"", "\"">>]
    /\ Val(last).status = 500
    /\ store[1].bridge_content = Some(<<"a", "a">>)
    /\ store[1].bridge_embedding = Some(Embedding(<<"a", "a">>))

\* C19: enrich_joke never raises to add_joke, upload_segments or the
\* Streamlit manual entry; whatever the synthesizer and the embedding of
\* the bridge do, a joke whose own embedding was computed is inserted when
\* the table accepts the insert.
C19_EnrichmentNeverAborts ==
    /\ LastIs({"add_joke", "upload_segments", "manual_add"}) =>
           ~Val(last).result.enrich_raised
    /\ (LastIs({"add_joke"}) /\ ~Blank(Val(last).input.joke_text)
          /\ Val(last).input.service = "ok" /\ Val(last).input.db = "ok") =>
           /\ Val(last).status = 200
           /\ Len(Val(last).result.ids) = 1
    /\ (LastIs({"manual_add"}) /\ Val(last).input.db = "ok") =>
           /\ Val(last).status = 200
           /\ Len(Val(last).result.ids) = 1
    /\ (LastIs({"upload_segments"}) /\ Val(last).input.segments # << >>
          /\ Val(last).input.db = "ok"
          /\ \A k \in 1..Len(Val(last).input.segments) :
                Val(last).input.segments[k].service = "ok") =>
           /\ Val(last).status = 200
           /\ Len(Val(last).result.ids) =
                 Cardinality({k \in 1..Len(Val(last).input.segments) :
                                 ~Blank(Val(last).input.segments[k].searchable_content)})

\* add_joke while the embedding service failed on the bridge: the joke is
\* inserted with its bridge and without a bridge embedding
C19_Witness ==
    /\ LastIs({"add_joke"})
    /\ Val(last).input.service2 = "raise"
    /\ Val(last).status = 200
    /\ Val(last).result.enrichment = EnrichMap(Some(<<"a", " ", "a">>), NULL)
    /\ store[Val(last).result.ids[1]].bridge_content = Some(<<"a", " ", "a">>)
    /\ store[Val(last).result.ids[1]].bridge_embedding = NULL

\* C20: after an edit of searchable_text (Flask update_segment, Streamlit
\* Save) of an existing row, either the edit was rejected and no row
\* changed, or the row's embedding is the embedding of the searchable_text
\* it now holds.
C20_EditsReembed ==
    (LastIs({"update_segment", "save"}) /\ Val(last).input.id \in DOMAIN store) =>
        \/ Val(last).status # 200 /\ Val(last).written = {}
        \/ /\ store[Val(last).input.id].searchable_text = Val(last).input.searchable_text
           /\ store[Val(last).input.id].embedding =
                 Some(Embedding(NormalizeForEmbedding(Val(last).input.searchable_text)))


\* the calls the step made: a turn of the fill loop adds to the log, every
\* other operation begins a new one
StepCalls ==
    IF job # NULL /\ Val(job).kind = "fill" /\ job' # NULL /\ job' # job
          /\ Len(calls') >= Len(calls) /\ SubSeq(calls', 1, Len(calls)) = calls
    THEN SubSeq(calls', Len(calls) + 1, Len(calls'))
    ELSE calls'

\* the rows on which the step stored a bridge: new rows that have one,
\* and rows whose bridge_content it replaced
BridgeStoredOn ==
    {id \in DOMAIN store' :
        /\ store'[id].bridge_content # NULL
        /\ id \in DOMAIN store => store'[id].bridge_content # store[id].bridge_content}

\* in log, call j is get_embedding on text b, made after a call of
\* create_joke_bridge
EmbeddingAttempt(log, j, b) ==
    /\ log[j].fn = "get_embedding"
    /\ log[j].text = b
    /\ \E i \in 1..(j - 1) : log[i].fn = "create_joke_bridge"

\* in log, call j of get_embedding gave a vector: the service was asked
\* next and answered
EmbeddingYielded(log, j) ==
    /\ ~log[j].raised
    /\ j < Len(log)
    /\ log[j + 1] =
          TextCall("embeddings.create", NormalizeForEmbedding(log[j].text), FALSE)

\* C21: a step that stores a bridge on a row (add_joke, upload_segments,
\* refresh_bridge, a turn of fill_all_missing, the Streamlit manual entry
\* and Generate Bridge) has called get_embedding on that bridge text after
\* create_joke_bridge in the same operation; and when the row then has no
\* bridge_embedding, the embedding service returned no vector for it.
C21_BridgeWriteAttemptsEmbedding ==
    [][\A id \in BridgeStoredOn :
          /\ \E j \in 1..Len(StepCalls) :
                 EmbeddingAttempt(StepCalls, j, Val(store'[id].bridge_content))
          /\ store'[id].bridge_embedding = NULL =>
                 \E j \in 1..Len(StepCalls) :
                     /\ EmbeddingAttempt(StepCalls, j, Val(store'[id].bridge_content))
                     /\ ~EmbeddingYielded(StepCalls, j)]_vars

\* fill_all_missing gave the third row a blank bridge: get_embedding was
\* called on it and returned None without asking the service
C21_Witness ==
    /\ LastIs({"fill_all_missing"})
    /\ Val(last).result.processed = <<3>>
    /\ store[3].bridge_content = Some(<<" ">>)
    /\ store[3].bridge_embedding = NULL
    /\ \E j \in 1..Len(calls) : calls[j] = TextCall("get_embedding", <<" ">>, FALSE)


\* the texts passed to create_joke_bridge in log, in order
RECURSIVE SynthesizerTexts(_)
SynthesizerTexts(log) ==
    IF log = << >> THEN << >>
    ELSE (IF Head(log).fn = "create_joke_bridge" THEN <<Head(log).text>> ELSE << >>)
            \o SynthesizerTexts(Tail(log))

\* the step is one of a bridge writer that has read its rows
WriterStep == job # NULL /\ job' # job

\* the text a bridge writer holds for the row it is about to write
WriterText ==
    IF Val(job).kind = "refresh" THEN Val(job).joke_text
    ELSE Val(job).rows[Val(job).k].searchable_text

\* C22: the text passed to create_joke_bridge is the searchable_text of the
\* record the bridge is for, never its original_text: refresh_bridge and
\* fill_all_missing read searchable_text of the row and pass what they
\* read; add_joke, upload_segments and the Streamlit manual entry pass the
\* searchable_text of the row they insert; Generate Bridge passes the
\* searchable_text of the row it updates.
C22_BridgeFromSearchableText ==
    [][/\ (job = NULL /\ job' # NULL /\ Val(job').kind = "refresh") =>
             Val(job').joke_text = store[Val(job').id].searchable_text
       /\ (job = NULL /\ job' # NULL /\ Val(job').kind = "fill") =>
             \A k \in 1..Len(Val(job').rows) :
                 Val(job').rows[k].searchable_text =
                     store[Val(job').rows[k].id].searchable_text
       /\ (WriterStep /\ (Val(job).kind = "fill" => Val(job).k <= Len(Val(job).rows))) =>
             \A t \in {SynthesizerTexts(StepCalls)[i] :
                           i \in 1..Len(SynthesizerTexts(StepCalls))} :
                 t = WriterText
       /\ (job' = job /\ DOMAIN store' # DOMAIN store) =>
             LET ids == Ascending(DOMAIN store' \ DOMAIN store)
             IN  SynthesizerTexts(calls') =
                     [k \in 1..Len(ids) |-> store'[ids[k]].searchable_text]
       /\ (job' = job /\ DOMAIN store' = DOMAIN store) =>
             \A id \in BridgeStoredOn :
                 SynthesizerTexts(calls') = <<store[id].searchable_text>>]_vars

\* refresh_bridge on the second row, whose original_text differs from its
\* searchable_text: the synthesizer was given the searchable_text
C22_Witness ==
    /\ LastIs({"refresh_bridge"})
    /\ Val(last).input.id = 2
    /\ Val(last).status = 200
    /\ store[2].original_text # store[2].searchable_text
    /\ SynthesizerTexts(calls) = <<store[2].searchable_text>>


\* the rows that have a bridge and no bridge embedding
PartialRows ==
    {id \in DOMAIN store :
        store[id].bridge_content # NULL /\ store[id].bridge_embedding = NULL}

\* the rows that have a bridge and a bridge embedding
IndexedRows ==
    {id \in DOMAIN store :
        store[id].bridge_content # NULL /\ store[id].bridge_embedding # NULL}

\* the ids the select of fill_all_missing returns when asked for all rows
MissingBridgeIds ==
    LET rows == MissingBridges(store, Cardinality(DOMAIN store))
    IN  {rows[k].id : k \in 1..Len(rows)}

\* get_all_segments reports a row with a bridge and no bridge embedding
\* with has_bridge_embedding false, and the missing-bridge filter of
\* fill_all_missing leaves it out
PartialShownAsNotEmbedded ==
    /\ (LastIs({"get_all_segments"}) /\ Val(last).status = 200 /\ job = NULL) =>
           \A id \in PartialRows : ~Val(last).result[id].has_bridge_embedding
    /\ PartialRows \cap MissingBridgeIds = {}

\* C23: a row with bridge_content and without bridge_embedding is visible
\* as not indexed: get_all_segments gives it has_bridge_embedding false,
\* the statistics do not count it as indexed, and the missing-bridge
\* filter of fill_all_missing leaves it out.
C23_PartialFailureVisible ==
    /\ PartialShownAsNotEmbedded
    /\ (LastIs({"stats"}) /\ Val(last).status = 200 /\ job = NULL) =>
           Val(last).result.indexed = Cardinality(IndexedRows)


\* C24: when a bridge writer (refresh_bridge, fill_all_missing) has
\* written the bridge of a row, whatever edits of update_segment were
\* interleaved with it, the bridge was generated from the searchable_text
\* the row holds once the writer has completed.
C24_BridgeFromFinalText ==
    /\ (LastIs({"refresh_bridge"}) /\ Val(last).status = 200) =>
           Val(last).input.joke_text = store[Val(last).input.id].searchable_text
    /\ LastIs({"fill_all_missing"}) =>
           \A k \in 1..Len(Val(last).input.selected) :
               (\E q \in 1..Len(Val(last).result.processed) :
                    Val(last).result.processed[q] = Val(last).input.selected[k].id) =>
                   Val(last).input.selected[k].searchable_text =
                       store[Val(last).input.selected[k].id].searchable_text


\* the rows for which a bridge can be generated: those that have a text
Fillable == {id \in DOMAIN store : store[id].searchable_text # << >>}

\* C25: when fill_all_missing is called again and again with the same
\* batch_size and the services work, every row that has a text eventually
\* has a bridge, even when rows without text stay without bridge.
C25_EveryFillableRowFilled ==
    <>(\A id \in Fillable : store[id].bridge_content # NULL)


\* how many entries of sequence q satisfy Has
Occurrences(q, Has(_)) == Cardinality({i \in 1..Len(q) : Has(q[i])})

\* the row but for its two bridge fields
WithoutBridge(row) ==
    [row EXCEPT !.bridge_content = NULL, !.bridge_embedding = NULL]

C27_BridgeEmbeddingCurrent ==
    \A id \in IndexedRows :
        store[id].bridge_embedding =
            Some(Embedding(NormalizeForEmbedding(Val(store[id].bridge_content))))


\* the segments of the last upload that have a text of which something is
\* left to embed, in input order
RECURSIVE Embeddable(_, _)
Embeddable(segments, k) ==
    IF k > Len(segments) THEN << >>
    ELSE (IF NormalizeForEmbedding(segments[k].searchable_content) # << >>
          THEN <<k>> ELSE << >>) \o Embeddable(segments, k + 1)

\* get_embedding raised on the text of one of the segments
ContentEmbeddingRaised(segments) ==
    \E k \in 1..Len(segments) :
        /\ NormalizeForEmbedding(segments[k].searchable_content) # << >>
        /\ segments[k].service = "raise"

DeleteClicked(s, id) ==
    /\ last' # last
    /\ LastIs({"delete_click"})'
    /\ Val(last').input.session = s
    /\ Val(last').input.id = id

\* C29: in the Streamlit DB Explorer a row leaves the table only in a click
\* on its delete button by a session whose confirmation flag of that row is
\* already set; a flag is set only by a click of that session on that row's
\* delete button; and a click on a row whose flag is not set in the session
\* deletes nothing and only sets that flag
C29_DeleteNeedsEarlierClick ==
    [][/\ \A id \in DOMAIN store \ DOMAIN store' :
              \E s \in Sessions :
                  DeleteClicked(s, id) /\ id \in session_state[s].confirm
       /\ \A s \in Sessions :
              \A id \in session_state'[s].confirm \ session_state[s].confirm :
                  DeleteClicked(s, id) /\ store' = store
       /\ \A s \in Sessions, id \in AllIds :
              DeleteClicked(s, id) /\ id \notin session_state[s].confirm =>
                  /\ store' = store
                  /\ session_state' =
                        [session_state EXCEPT ![s].confirm = @ \cup {id}]]_vars

\* a second click of a session on a row's delete button has deleted the row
C29_Witness ==
    /\ LastIs({"delete_click"})
    /\ Val(last).n = 2
    /\ Val(last).input.id \notin DOMAIN store
    /\ Val(last).input.id \in session_state[Val(last).input.session].confirm

\* C30: Push All Selected loses no joke: for every text, the jokes with that
\* text that left the review list are as many as the rows with that text the
\* push inserted
C30_PushAllLosesNoJoke ==
    [][last' # last /\ LastIs({"push_all"})' =>
          LET s == Val(last').input.session
              before == session_state[s].extracted_jokes
              after == session_state'[s].extracted_jokes
              inserted == DOMAIN store' \ DOMAIN store
          IN  \A k \in 1..Len(before) :
                  LET text == before[k].searchable_content
                      HasText(j) == j.searchable_content = text
                  IN  Occurrences(before, HasText) - Occurrences(after, HasText) =
                          Cardinality({id \in inserted :
                                          store'[id].searchable_text = text})]_vars

====
